---- MODULE Spec2Model ----
(***************************************************************************)
(* Live session core of the coding-interview platform                      *)
(* (02-coding-interview/packages/backend):                                 *)
(*   - routes/sessions.ts      POST /, GET /:id, POST /:id/execute         *)
(*   - services/execution.ts   the Piston gateway (executeCode with retry, *)
(*                             validateCode)                               *)
(*   - services/execution.ts   the Docker sandbox revisions (spawn based   *)
(*                             and exec based executeCode)                 *)
(*   - websocket/handler.ts    the presence hub (join-session,             *)
(*                             cursor-change, language-change,             *)
(*                             username-change, disconnect)                *)
(*                                                                         *)
(* Text values are sequences of tokens: "" is <<>>, a template literal is  *)
(* the concatenation of its parts, and a language tag is the sequence of   *)
(* its characters.  A JavaScript `undefined` field is the token sequence   *)
(* Undefined.                                                              *)
(***************************************************************************)
EXTENDS Integers, Sequences, FiniteSets, TLC

VARIABLES
    now,        \* wall clock of the persistent store, in days
    sessions,   \* prisma.interviewSession: id -> row
    history,    \* prisma.codeExecution rows, in insertion order
    req,        \* the HTTP request being served and its handler's position
    gw,         \* one call of the gateway's executeCode
    sb,         \* one call of the sandbox's executeCode
    pool,       \* calls of the sandbox's executeCode in flight together
    cmd,        \* the docker command a call of executeCode builds, and
                \* the result of validateCode
    sockets,    \* socket.io connections: state, rooms, and the sessions
                \* the client has asked to join so far
    users,      \* redis hashes session:<id>:users
    joins,      \* the join-session handler in flight on each socket
    emitted,    \* events emitted by the server, with their recipients
    ops,        \* the other handlers in flight on each socket
    redis       \* the Redis connection: commands awaiting their reply

vars == <<now, sessions, history, req, gw, sb, pool, cmd, sockets, users,
          joins, emitted, ops, redis>>

hubVars == <<sockets, users, joins, emitted, ops, redis>>

storeVars == <<now, sessions, history, req>>

----------------------------------------------------------------------------
(* Text helpers                                                            *)

Undefined == <<"<undefined>">>
EmptyStr == <<>>

\* JavaScript truthiness of a string-or-undefined value
Truthy(s) == s # Undefined /\ s # EmptyStr

\* a || b
OrElse(a, b) == IF Truthy(a) THEN a ELSE b

Contains(s, tok) == \E i \in 1..Len(s) : s[i] = tok

Upper == <<"A", "C", "E", "G", "I", "J", "N", "O", "P", "R", "S", "T", "U", "V", "Y", "H", "B", "L">>
Lower == <<"a", "c", "e", "g", "i", "j", "n", "o", "p", "r", "s", "t", "u", "v", "y", "h", "b", "l">>

LowerChar(c) ==
    IF \E i \in 1..Len(Upper) : Upper[i] = c
    THEN Lower[CHOOSE i \in 1..Len(Upper) : Upper[i] = c]
    ELSE c

\* String.prototype.toLowerCase
ToLowerCase(s) == [i \in 1..Len(s) |-> LowerChar(s[i])]

----------------------------------------------------------------------------
(* Language tags                                                           *)

Javascript == <<"j", "a", "v", "a", "s", "c", "r", "i", "p", "t">>
Typescript == <<"t", "y", "p", "e", "s", "c", "r", "i", "p", "t">>
Python == <<"p", "y", "t", "h", "o", "n">>
Java == <<"j", "a", "v", "a">>
Go == <<"g", "o">>
Rust == <<"r", "u", "s", "t">>
Cpp == <<"c", "p", "p">>

JavaUpper == <<"J", "A", "V", "A">>
PythonCap == <<"P", "y", "t", "h", "o", "n">>
Cobol == <<"c", "o", "b", "o", "l">>

\* keys of PISTON_LANGUAGES
PISTON_LANGUAGES == {Javascript, Typescript, Python, Java, Go, Rust, Cpp}

\* the tags a caller may send
LanguageInputs == {Javascript, Python, Java, JavaUpper, PythonCap, Rust, Cobol, EmptyStr}

----------------------------------------------------------------------------
(* ExecutionResult and the remote service's replies                        *)

Result(out, err, ms) == [output |-> out, error |-> err, executionTime |-> ms]

NoResult == [output |-> Undefined, error |-> Undefined, executionTime |-> -1]

ExecutionFailedMsg == <<"Execution failed">>
TimeoutMsg == <<"Execution timeout: Code took too long to execute">>
BodyUnusableMsg == <<"Body is unusable">>
FetchFailedMsg == <<"fetch failed">>

UnsupportedMsg(language) == <<"Unsupported language: ">> \o language

\* `Execution service error: ${response?.status || 'unknown'} - ${errorText}`
StatusText(status) ==
    CASE status = 200 -> "200"
      [] status = 400 -> "400"
      [] status = 429 -> "429"
      [] status = 500 -> "500"
      [] OTHER -> "unknown"

ServiceErrorMsg(status, errorText) ==
    <<"Execution service error: ", StatusText(status), " - ">> \o errorText

StdoutTexts == {EmptyStr, <<"out">>}
StderrTexts == {EmptyStr, <<"err">>}

\* run.code of a Piston reply: a number, or absent (-1) when the run was
\* ended by a signal
ExitCodes == {0, 1, -1}

Runs == [code : ExitCodes, stdout : StdoutTexts, stderr : StderrTexts]

NoRun == [code |-> -1, stdout |-> EmptyStr, stderr |-> EmptyStr]

\* A fetch Response: its status, its body text, the parsed run of a 200
\* reply, and whether the body stream has been read.
Response(status, body, run) ==
    [status |-> status, body |-> body, run |-> run, bodyUsed |-> FALSE]

NoResponse == [status |-> 0, body |-> EmptyStr, run |-> NoRun, bodyUsed |-> FALSE]

RateLimitStatus == 429

RemoteResponses ==
    {Response(200, <<"json">>, r) : r \in Runs}
    \cup {Response(RateLimitStatus, <<"rate limited">>, NoRun),
          Response(500, <<"internal error">>, NoRun),
          Response(400, <<"bad request">>, NoRun)}

\* response.ok
Ok(response) == response.status >= 200 /\ response.status <= 299

----------------------------------------------------------------------------
(* Gateway: services/execution.ts executeCode                              *)

MaxAttemptsPlusOne == 3 + 1
MaxAttempts == 3

RetryDelayMs == 300

\* the Piston result mapping (exitCode === 0 ? ... : ...)
PistonMapWithoutOutput(run, ms) ==
    IF run.code = 0
    THEN Result(OrElse(run.stdout, Undefined), OrElse(run.stderr, Undefined), ms)
    ELSE Result(Undefined,
                OrElse(run.stderr, OrElse(run.stdout, ExecutionFailedMsg)), ms)

PistonMap(run, ms) ==
    IF run.code = 0
    THEN Result(OrElse(run.stdout, Undefined), OrElse(run.stderr, Undefined), ms)
    ELSE Result(OrElse(run.stdout, Undefined),
                OrElse(run.stderr, OrElse(run.stdout, ExecutionFailedMsg)), ms)

GwIdle ==
    [pc |-> "idle", language |-> EmptyStr, attempt |-> 0,
     response |-> NoResponse, lastError |-> EmptyStr,
     log |-> <<>>, elapsed |-> 0, result |-> NoResult]

\* the calls made so far: fetch (with the status of its reply, 0 when the
\* fetch was rejected) and delay
LogFetch(status) == [op |-> "fetch", status |-> status]
LogDelay == [op |-> "delay", status |-> 0]

Fetches(g) == Cardinality({i \in 1..Len(g.log) : g.log[i].op = "fetch"})
Delays(g) == Cardinality({i \in 1..Len(g.log) : g.log[i].op = "delay"})

\* lines 23-43: the language lookup, the fail-fast return, and loop entry
GwCallEager(language) ==
    /\ gw.pc = "idle"
    /\ gw' = [GwIdle EXCEPT !.language = language, !.pc = "fetch"]
    /\ UNCHANGED <<storeVars, sb, hubVars, pool, cmd>>

GwCall(language) ==
    /\ gw.pc = "idle"
    /\ IF ToLowerCase(language) \notin PISTON_LANGUAGES
       THEN gw' = [GwIdle EXCEPT !.language = language, !.pc = "done",
                                 !.result = Result(Undefined, UnsupportedMsg(language), 0)]
       ELSE gw' = [GwIdle EXCEPT !.language = language, !.pc = "fetch"]
    /\ UNCHANGED <<storeVars, sb, hubVars, pool, cmd>>

\* lines 44-46: await delay(300) at the top of a retry iteration
GwDelay ==
    /\ gw.pc = "delay"
    /\ gw' = [gw EXCEPT !.pc = "fetch", !.log = Append(@, LogDelay),
                        !.elapsed = @ + RetryDelayMs]
    /\ UNCHANGED <<storeVars, sb, hubVars, pool, cmd>>

\* lines 48-68: the request; a reply that is ok or not a rate limit breaks
\* out of the loop, a rejected fetch goes to the catch block (106-112)
GwFetch(r) ==
    /\ gw.pc = "fetch"
    /\ gw' = [gw EXCEPT !.log = Append(@, LogFetch(r.status)), !.response = r,
                        !.pc = IF Ok(r) \/ r.status # RateLimitStatus
                               THEN "after" ELSE "readError"]
    /\ UNCHANGED <<storeVars, sb, hubVars, pool, cmd>>

GwFetchThrows ==
    /\ gw.pc = "fetch"
    /\ gw' = [gw EXCEPT !.log = Append(@, LogFetch(0)), !.pc = "done",
                        !.result = Result(Undefined, FetchFailedMsg, gw.elapsed)]
    /\ UNCHANGED <<storeVars, sb, hubVars, pool, cmd>>

\* line 70 and the loop increment/test of line 43:
\* lastError = await response.text(); attempt++
GwReadError ==
    /\ gw.pc = "readError"
    /\ gw' = [gw EXCEPT !.lastError = gw.response.body,
                        !.response.bodyUsed = TRUE,
                        !.attempt = @ + 1,
                        !.pc = IF gw.attempt + 1 < MaxAttempts THEN "delay" ELSE "after"]
    /\ UNCHANGED <<storeVars, sb, hubVars, pool, cmd>>

\* lines 73-112: after the loop.  response.text() and response.json() reject
\* with a TypeError when the body stream was already read; the catch block
\* turns that into { error: error.message }.
GwAfter ==
    /\ gw.pc = "after"
    /\ gw' = [gw EXCEPT
         !.pc = "done",
         !.response.bodyUsed = TRUE,
         !.result =
            IF gw.response.bodyUsed
            THEN Result(Undefined, BodyUnusableMsg, gw.elapsed)
            ELSE IF ~Ok(gw.response)
            THEN Result(Undefined,
                        ServiceErrorMsg(gw.response.status, gw.response.body),
                        gw.elapsed)
            ELSE PistonMap(gw.response.run, gw.elapsed)]
    /\ UNCHANGED <<storeVars, sb, hubVars, pool, cmd>>

\* the caller takes the result; the next call starts from a fresh frame
GwReturn ==
    /\ gw.pc = "done"
    /\ gw' = GwIdle
    /\ UNCHANGED <<storeVars, sb, hubVars, pool, cmd>>

----------------------------------------------------------------------------
(* Sandbox: the Docker executeCode, spawn based (docker run ... timeout Ns  *)
(* sh -c ..., close/error handlers, kill timer) and exec based (execAsync   *)
(* with a timeout option, try/catch/finally).  Time is in seconds.          *)

\* keys of LANGUAGE_CONFIGS
LANGUAGE_CONFIGS == {Javascript, Typescript, Python, Java, Go, Rust, Cpp}

DefaultTimeoutS == 5

\* config.timeout of the spawn based revision, in seconds
ConfigTimeoutSpawn(lang) ==
    CASE lang = Javascript -> 5
      [] lang = Typescript -> 15
      [] lang = Python -> 5
      [] lang = Java -> 10
      [] lang = Go -> 10
      [] lang = Rust -> 15
      [] lang = Cpp -> 10
      [] OTHER -> DefaultTimeoutS

\* config.timeout of the exec based revision, in seconds
ConfigTimeoutExec(lang) ==
    CASE lang = Typescript -> 10
      [] OTHER -> ConfigTimeoutSpawn(lang)

ConfigTimeout(variant, lang) ==
    IF variant = "spawn" THEN ConfigTimeoutSpawn(lang) ELSE ConfigTimeoutExec(lang)

\* the 2000 ms added to config.timeout for the outer kill
KillGraceS == 2

\* delay between starting `docker run` and the start of the program in the
\* container (image lookup, container creation)
MaxOverheadS == 3

\* chunks a program writes to each of stdout and stderr
MaxChunks == 1

\* exit status of `timeout Ns` when it ends the program (GNU: 124,
\* busybox: 128 + SIGTERM)
InnerTimeoutExitCodes == {124, 143}

ProgramExitCodes == {0, 1}

\* exit code reported for a process ended by a signal (null)
NullExitCode == -1

\* exit status of `docker run` when the daemon could not create or start
\* the container (image not found, no memory left for the limits asked)
DockerFailedExitCode == 125

\* what the docker client writes to its stderr in that case
DockerDaemonMsg == "docker: Error response from daemon"

\* chunks of text a program may write to its stderr: any text at all, the
\* text of the docker client included
StderrChunks == {"err", DockerDaemonMsg}

CommandFailedMsg == <<"Command failed: docker run">>

SpawnFailedMsg == <<"spawn docker ENOENT">>
FsFailedMsg == <<"EACCES: permission denied">>

SbIdle ==
    [pc |-> "idle", variant |-> "spawn", language |-> EmptyStr, timeoutS |-> 0,
     clock |-> 0, overhead |-> 0, proc |-> "none", exitCode |-> NullExitCode,
     stdout |-> EmptyStr, stderr |-> EmptyStr, killed |-> FALSE,
     timerArmed |-> FALSE, timedOut |-> FALSE, resolves |-> 0,
     dir |-> FALSE, file |-> FALSE, result |-> NoResult]

\* the program is running inside the container
InContainer == sb.proc = "running" /\ sb.clock >= sb.overhead

InnerTimerDue == InContainer /\ sb.clock >= sb.overhead + sb.timeoutS

OuterTimerDue ==
    /\ sb.proc = "running"
    /\ sb.clock >= sb.timeoutS + KillGraceS
    /\ (sb.variant = "spawn" => sb.timerArmed)

\* close handler of the spawn based revision
SpawnCloseResultSwapped(killed, exitCode, stdout, stderr, ms) ==
    IF killed
    THEN Result(Undefined, TimeoutMsg, ms)
    ELSE IF exitCode = 0
    THEN Result(OrElse(stderr, Undefined), OrElse(stdout, Undefined), ms)
    ELSE Result(Undefined, OrElse(stdout, OrElse(stderr, ExecutionFailedMsg)), ms)

SpawnCloseResult(killed, exitCode, stdout, stderr, ms) ==
    IF killed
    THEN Result(Undefined, TimeoutMsg, ms)
    ELSE IF exitCode = 0
    THEN Result(OrElse(stdout, Undefined), OrElse(stderr, Undefined), ms)
    ELSE Result(Undefined, OrElse(stderr, OrElse(stdout, ExecutionFailedMsg)), ms)

\* the exec based revision: execAsync resolves on exit code 0 and rejects
\* otherwise; the catch block tests error.killed || error.signal === 'SIGTERM'
ExecResult(killed, exitCode, stdout, stderr, ms) ==
    IF exitCode = 0
    THEN Result(OrElse(stdout, Undefined), OrElse(stderr, Undefined), ms)
    ELSE IF killed \/ exitCode = NullExitCode
    THEN Result(Undefined, TimeoutMsg, ms)
    ELSE Result(Undefined, OrElse(stderr, OrElse(stdout, CommandFailedMsg)), ms)

\* the finally block of the exec based revision: unlink(filepath), then
\* rm -rf tempDir; a failing unlink skips the rm -rf (both are in one try)
Cleanup(s) ==
    IF s.variant # "exec" THEN s
    ELSE IF s.file THEN [s EXCEPT !.file = FALSE, !.dir = FALSE]
    ELSE s

\* entry of executeCode up to the start of `docker run`.  fsFail is the
\* step of the exec based revision's workspace set-up that fails, if any;
\* spawnOk is whether the docker binary could be started.
SbCall(variant, language, fsFail, spawnOk) ==
    /\ sb.pc = "idle"
    /\ variant = "spawn" => fsFail = "none"
    /\ variant = "exec" => spawnOk
    /\ IF ToLowerCase(language) \notin LANGUAGE_CONFIGS
       THEN sb' = [SbIdle EXCEPT !.pc = "threw", !.variant = variant,
                                 !.language = language]
       ELSE IF fsFail # "none"
       THEN sb' = Cleanup([SbIdle EXCEPT
                       !.pc = "resolved", !.variant = variant,
                       !.language = language, !.resolves = 1,
                       !.dir = (fsFail = "writeFile"),
                       !.result = Result(Undefined, FsFailedMsg, 0)])
       ELSE \E o \in 0..MaxOverheadS :
              sb' = [SbIdle EXCEPT
                       !.pc = "pending", !.variant = variant,
                       !.language = language,
                       !.timeoutS = ConfigTimeout(variant, ToLowerCase(language)),
                       !.overhead = o,
                       !.proc = IF spawnOk THEN "running" ELSE "failed",
                       !.dir = (variant = "exec"), !.file = (variant = "exec"),
                       !.timerArmed = (variant = "spawn")]
    /\ UNCHANGED <<storeVars, gw, hubVars, pool, cmd>>

\* proc.on('error'): the docker binary could not be started; a close event
\* may or may not follow
SbErrorUnhandled(closeFollows) ==
    /\ sb.proc = "failed"
    /\ sb' = [sb EXCEPT
         !.proc = IF closeFollows THEN "exited" ELSE "closed",
         !.exitCode = NullExitCode,
         !.timerArmed = FALSE]
    /\ UNCHANGED <<storeVars, gw, hubVars, pool, cmd>>

SbError(closeFollows) ==
    /\ sb.proc = "failed"
    /\ sb' = [sb EXCEPT
         !.proc = IF closeFollows THEN "exited" ELSE "closed",
         !.exitCode = NullExitCode,
         !.timerArmed = FALSE,
         !.pc = "resolved",
         !.resolves = @ + 1,
         !.result = Result(Undefined, SpawnFailedMsg, sb.clock)]
    /\ UNCHANGED <<storeVars, gw, hubVars, pool, cmd>>

SbTick ==
    /\ sb.proc = "running"
    /\ ~InnerTimerDue
    /\ ~OuterTimerDue
    /\ sb' = [sb EXCEPT !.clock = @ + 1]
    /\ UNCHANGED <<storeVars, gw, hubVars, pool, cmd>>

\* proc.stdout.on('data') / proc.stderr.on('data')
SbStdout ==
    /\ InContainer
    /\ Len(sb.stdout) < MaxChunks
    /\ sb' = [sb EXCEPT !.stdout = @ \o <<"out">>]
    /\ UNCHANGED <<storeVars, gw, hubVars, pool, cmd>>

SbStderr(chunk) ==
    /\ InContainer
    /\ Len(sb.stderr) < MaxChunks
    /\ sb' = [sb EXCEPT !.stderr = @ \o <<chunk>>]
    /\ UNCHANGED <<storeVars, gw, hubVars, pool, cmd>>

\* the program ends by itself
SbProgramExit(c) ==
    /\ InContainer
    /\ ~InnerTimerDue
    /\ sb' = [sb EXCEPT !.proc = "exited", !.exitCode = c]
    /\ UNCHANGED <<storeVars, gw, hubVars, pool, cmd>>

\* `docker run` fails before the container runs: the client writes the
\* daemon's message to stderr and exits
SbDockerFails ==
    /\ sb.proc = "running"
    /\ sb.clock < sb.overhead
    /\ sb' = [sb EXCEPT !.proc = "exited", !.exitCode = DockerFailedExitCode,
                        !.stderr = @ \o <<DockerDaemonMsg>>]
    /\ UNCHANGED <<storeVars, gw, hubVars, pool, cmd>>

\* `timeout Ns` inside the container ends the program
SbInnerTimeout(c) ==
    /\ InnerTimerDue
    /\ sb' = [sb EXCEPT !.proc = "exited", !.exitCode = c, !.timedOut = TRUE]
    /\ UNCHANGED <<storeVars, gw, hubVars, pool, cmd>>

\* the kill timer (setTimeout / the timeout option): killed = true,
\* proc.kill('SIGTERM')
SbKillTimer ==
    /\ OuterTimerDue
    /\ sb' = [sb EXCEPT !.killed = TRUE, !.timerArmed = FALSE,
                        !.proc = "exited", !.exitCode = NullExitCode,
                        !.timedOut = TRUE]
    /\ UNCHANGED <<storeVars, gw, hubVars, pool, cmd>>

\* proc.on('close') / the settlement of execAsync and the try/catch around it
SbClose ==
    /\ sb.proc = "exited"
    /\ sb' = Cleanup([sb EXCEPT
         !.proc = "closed",
         !.timerArmed = FALSE,
         !.pc = "resolved",
         !.resolves = @ + 1,
         !.result =
            IF sb.pc = "resolved" THEN sb.result
            ELSE IF sb.variant = "spawn"
            THEN SpawnCloseResult(sb.killed, sb.exitCode, sb.stdout, sb.stderr, sb.clock)
            ELSE ExecResult(sb.killed, sb.exitCode, sb.stdout, sb.stderr, sb.clock)])
    /\ UNCHANGED <<storeVars, gw, hubVars, pool, cmd>>

SbReturn ==
    /\ sb.pc \in {"resolved", "threw"}
    /\ sb.proc \in {"closed", "none"}
    /\ sb' = SbIdle
    /\ UNCHANGED <<storeVars, gw, hubVars, pool, cmd>>

----------------------------------------------------------------------------
(* Sandbox workspaces: what each call of the Docker executeCode provisions *)
(* (the exec based revision: executionId, tempDir, filepath and a          *)
(* container; the spawn based revision: a container whose /workspace is a  *)
(* tmpfs of its own), over calls that are in flight together.              *)

CallIds == {"k1", "k2"}

\* values randomUUID() may return; it draws 122 random bits, and a value
\* it returned before is taken never to be returned again
Uuids == {"u1", "u2", "u3"}

\* containers the Docker daemon may create; each `docker run` creates one
ContainerIds == {"c1", "c2", "c3"}

\* LANGUAGE_CONFIGS[...].extension
Extension(lang) ==
    CASE lang = Javascript -> "js"
      [] lang = Typescript -> "ts"
      [] lang = Python -> "py"
      [] lang = Java -> "java"
      [] lang = Go -> "go"
      [] lang = Rust -> "rs"
      [] lang = Cpp -> "cpp"
      [] OTHER -> "?"

\* language === 'java' ? 'Main.java' : `code_${executionId}.${extension}`
\* (`code.${extension}` in the spawn based revision)
Filename(variant, language, executionId) ==
    IF language = Java THEN <<"Main.java">>
    ELSE IF variant = "exec"
    THEN <<"code_", executionId, ".", Extension(ToLowerCase(language))>>
    ELSE <<"code.", Extension(ToLowerCase(language))>>

\* join('/tmp', `exec_${executionId}`)
TempDirShared(executionId) == <<"/tmp", "/", "exec_">>

TempDir(executionId) == <<"/tmp", "/", "exec_", executionId>>

\* join(tempDir, filename)
Filepath(tempDir, filename) == tempDir \o <<"/">> \o filename

\* /workspace/<filename> on the tmpfs of container c
ContainerPath(c, filename) == <<c, ":", "/workspace", "/">> \o filename

NoCall ==
    [pc |-> "idle", variant |-> "spawn", language |-> EmptyStr,
     executionId |-> "none", tempDir |-> EmptyStr, filepath |-> EmptyStr,
     container |-> "none"]

\* the calls, the values randomUUID has returned, the containers created,
\* and every workspace path handed to a call so far
PoolIdle ==
    [calls |-> [k \in CallIds |-> NoCall], issued |-> {}, created |-> {},
     workspaces |-> {}]

\* entry of executeCode: the names of the call's workspace, and the mkdir
\* and writeFile of the exec based revision
PoolCall(k, variant, language, uuid) ==
    /\ pool.calls[k].pc = "idle"
    /\ ToLowerCase(language) \in LANGUAGE_CONFIGS
    /\ IF variant = "exec"
       THEN /\ uuid \notin pool.issued
            /\ LET tempDir == TempDir(uuid)
                   filepath == Filepath(tempDir, Filename(variant, language, uuid))
               IN  pool' = [pool EXCEPT
                      !.calls[k] = [pc |-> "prepared", variant |-> variant,
                                    language |-> language, executionId |-> uuid,
                                    tempDir |-> tempDir, filepath |-> filepath,
                                    container |-> "none"],
                      !.issued = @ \cup {uuid},
                      !.workspaces = @ \cup {filepath}]
       ELSE pool' = [pool EXCEPT
                      !.calls[k] = [NoCall EXCEPT !.pc = "prepared",
                                       !.variant = variant, !.language = language]]
    /\ UNCHANGED <<storeVars, gw, sb, hubVars, cmd>>

\* `docker run --rm`: the daemon creates container c for this call; the
\* spawn based revision writes the source to the container's own /workspace
PoolRun(k, c) ==
    /\ pool.calls[k].pc = "prepared"
    /\ c \notin pool.created
    /\ LET call == pool.calls[k]
           path == ContainerPath(c, Filename(call.variant, call.language, call.executionId))
       IN  pool' = [pool EXCEPT
              !.calls[k].pc = "running",
              !.calls[k].container = c,
              !.calls[k].filepath = IF call.variant = "spawn" THEN path ELSE @,
              !.created = @ \cup {c},
              !.workspaces = IF call.variant = "spawn" THEN @ \cup {path} ELSE @]
    /\ UNCHANGED <<storeVars, gw, sb, hubVars, cmd>>

\* the container exits and --rm removes it; the finally block removes the
\* workspace; executeCode returns
PoolFinish(k) ==
    /\ pool.calls[k].pc = "running"
    /\ pool' = [pool EXCEPT !.calls[k] = NoCall]
    /\ UNCHANGED <<storeVars, gw, sb, hubVars, cmd>>

----------------------------------------------------------------------------
(* Persistent store and routes/sessions.ts                                 *)

SessionIds == {"s1", "s2"}

\* latest value of the store's clock
MaxTime == 2

\* rows the execution history may hold
MaxHistory == 1

\* 24 * 60 * 60 * 1000 ms, in clock units of one day
SessionTtl == 1

\* the code-size ceiling of validateCode
MaxCodeLength == 50000

NoSession == [exists |-> FALSE, language |-> EmptyStr, expiresAt |-> 0]

\* A source text is known by its length and the length of its trim();
\* an absent body field has defined = FALSE.
Code(len, trimLen) == [defined |-> TRUE, len |-> len, trimLen |-> trimLen]

NoCode == [defined |-> FALSE, len |-> 0, trimLen |-> 0]

CodeInputs ==
    {NoCode, Code(0, 0), Code(3, 0), Code(5, 5),
     Code(MaxCodeLength + 1, MaxCodeLength + 1)}

Lang(tag) == [defined |-> TRUE, tag |-> tag]

NoLang == [defined |-> FALSE, tag |-> EmptyStr]

RouteLanguageInputs == {NoLang, Lang(Javascript), Lang(JavaUpper), Lang(Cobol)}

\* !code, !language
FalsyCode(code) == ~code.defined \/ code.len = 0
FalsyLang(language) == ~language.defined \/ language.tag = EmptyStr

RequiredMsg == <<"Code and language are required">>
NotFoundMsg == <<"Session not found">>
ExpiredMsg == <<"Session expired">>
EmptyCodeMsg == <<"Code cannot be empty">>
TooLongMsg == <<"Code is too long (max 50KB)">>
StoreErrorMsg == <<"database error">>

Valid == [valid |-> TRUE, error |-> Undefined]
Invalid(msg) == [valid |-> FALSE, error |-> msg]

\* services/execution.ts validateCode
validateCode(code, language) ==
    IF FalsyCode(code) \/ code.trimLen = 0
    THEN Invalid(EmptyCodeMsg)
    ELSE IF code.len > MaxCodeLength
    THEN Invalid(TooLongMsg)
    ELSE IF ToLowerCase(language) \notin PISTON_LANGUAGES
    THEN Invalid(UnsupportedMsg(language))
    ELSE Valid

\* session.expiresAt && session.expiresAt < new Date()
Expired(session) == session.expiresAt < now

HttpResponse(status, err, result) ==
    [status |-> status, error |-> err, result |-> result]

NoHttpResponse == HttpResponse(0, Undefined, NoResult)

ReqIdle ==
    [pc |-> "idle", kind |-> "none", sessionId |-> "s1", code |-> NoCode,
     language |-> NoLang, result |-> NoResult, response |-> NoHttpResponse,
     executed |-> FALSE]

\* what one executeCode call may resolve with, as seen by the route
RouteRuns ==
    {[code |-> 0, stdout |-> <<"out">>, stderr |-> EmptyStr],
     [code |-> 0, stdout |-> EmptyStr, stderr |-> EmptyStr],
     [code |-> 1, stdout |-> EmptyStr, stderr |-> <<"err">>]}

ExecuteCodeResults ==
    {PistonMap(r, 0) : r \in RouteRuns}
    \cup {Result(Undefined, ServiceErrorMsg(500, <<"internal error">>), 0)}

\* time passes
Tick ==
    /\ now < MaxTime
    /\ now' = now + 1
    /\ UNCHANGED <<sessions, history, req, gw, sb, hubVars, pool, cmd>>

\* POST /
CreateSession(id, language) ==
    /\ ~sessions[id].exists
    /\ sessions' = [sessions EXCEPT ![id] =
                      [exists |-> TRUE, language |-> language,
                       expiresAt |-> now + SessionTtl]]
    /\ UNCHANGED <<now, history, req, gw, sb, hubVars, pool, cmd>>

\* GET /:id
GetSession(id) ==
    /\ req.pc = "idle"
    /\ req' = [ReqIdle EXCEPT
         !.pc = "responded", !.kind = "get", !.sessionId = id,
         !.response =
            IF ~sessions[id].exists
            THEN HttpResponse(404, NotFoundMsg, NoResult)
            ELSE IF Expired(sessions[id])
            THEN HttpResponse(410, ExpiredMsg, NoResult)
            ELSE HttpResponse(200, Undefined, NoResult)]
    /\ UNCHANGED <<now, sessions, history, gw, sb, hubVars, pool, cmd>>

\* POST /:id/execute, lines 125-136: the presence test of code and
\* language, then the session lookup is issued
ExecuteReceive(id, code, language) ==
    /\ req.pc = "idle"
    /\ Len(history) < MaxHistory
    /\ req' = IF FalsyCode(code) \/ FalsyLang(language)
              THEN [ReqIdle EXCEPT
                      !.pc = "responded", !.kind = "execute", !.sessionId = id,
                      !.code = code, !.language = language,
                      !.response = HttpResponse(400, RequiredMsg, NoResult)]
              ELSE [ReqIdle EXCEPT
                      !.pc = "lookup", !.kind = "execute", !.sessionId = id,
                      !.code = code, !.language = language]
    /\ UNCHANGED <<now, sessions, history, gw, sb, hubVars, pool, cmd>>

\* lines 134-151: the lookup's answer, validateCode, and the call of
\* executeCode (executed records that the call was made)
ExecuteLookupValidateFirst ==
    /\ req.pc = "lookup"
    /\ LET session == sessions[req.sessionId]
           validation == validateCode(req.code, req.language.tag)
       IN  req' = IF ~validation.valid
                  THEN [req EXCEPT !.pc = "responded",
                          !.response = HttpResponse(400, validation.error, NoResult)]
                  ELSE IF ~session.exists
                  THEN [req EXCEPT !.pc = "responded",
                          !.response = HttpResponse(404, NotFoundMsg, NoResult)]
                  ELSE [req EXCEPT !.pc = "executing", !.executed = TRUE]
    /\ UNCHANGED <<now, sessions, history, gw, sb, hubVars, pool, cmd>>

ExecuteLookupRunsFirst ==
    /\ req.pc = "lookup"
    /\ LET session == sessions[req.sessionId]
           validation == validateCode(req.code, req.language.tag)
       IN  req' = IF ~session.exists
                  THEN [req EXCEPT !.pc = "responded",
                          !.response = HttpResponse(404, NotFoundMsg, NoResult)]
                  ELSE IF ~validation.valid
                  THEN [req EXCEPT !.pc = "responded", !.executed = TRUE,
                          !.response = HttpResponse(400, validation.error, NoResult)]
                  ELSE [req EXCEPT !.pc = "executing", !.executed = TRUE]
    /\ UNCHANGED <<now, sessions, history, gw, sb, hubVars, pool, cmd>>

ExecuteLookup ==
    /\ req.pc = "lookup"
    /\ LET session == sessions[req.sessionId]
           validation == validateCode(req.code, req.language.tag)
       IN  req' = IF ~session.exists
                  THEN [req EXCEPT !.pc = "responded",
                          !.response = HttpResponse(404, NotFoundMsg, NoResult)]
                  ELSE IF ~validation.valid
                  THEN [req EXCEPT !.pc = "responded",
                          !.response = HttpResponse(400, validation.error, NoResult)]
                  ELSE [req EXCEPT !.pc = "executing", !.executed = TRUE]
    /\ UNCHANGED <<now, sessions, history, gw, sb, hubVars, pool, cmd>>

\* line 151: executeCode resolves
ExecuteDone(result) ==
    /\ req.pc = "executing"
    /\ req' = [req EXCEPT !.pc = "saving", !.result = result]
    /\ UNCHANGED <<now, sessions, history, gw, sb, hubVars, pool, cmd>>

\* lines 154-173: the history row, then res.json(result); a failing create
\* goes to the catch block
ExecuteSaveSetsLanguage(ok) ==
    /\ req.pc = "saving"
    /\ IF ok
       THEN /\ history' = Append(history,
                   [sessionId |-> req.sessionId, code |-> req.code,
                    language |-> req.language.tag,
                    output |-> OrElse(req.result.output, Undefined),
                    error |-> OrElse(req.result.error, Undefined)])
            /\ sessions' = [sessions EXCEPT
                   ![req.sessionId].language = req.language.tag]
            /\ req' = [req EXCEPT !.pc = "responded",
                         !.response = HttpResponse(200, Undefined, req.result)]
       ELSE /\ req' = [req EXCEPT !.pc = "responded",
                         !.response = HttpResponse(500, StoreErrorMsg, NoResult)]
            /\ UNCHANGED <<history, sessions>>
    /\ UNCHANGED <<now, gw, sb, hubVars, pool, cmd>>

ExecuteSave(ok) ==
    /\ req.pc = "saving"
    /\ IF ok
       THEN /\ history' = Append(history,
                   [sessionId |-> req.sessionId, code |-> req.code,
                    language |-> req.language.tag,
                    output |-> OrElse(req.result.output, Undefined),
                    error |-> OrElse(req.result.error, Undefined)])
            /\ req' = [req EXCEPT !.pc = "responded",
                         !.response = HttpResponse(200, Undefined, req.result)]
       ELSE /\ req' = [req EXCEPT !.pc = "responded",
                         !.response = HttpResponse(500, StoreErrorMsg, NoResult)]
            /\ UNCHANGED history
    /\ UNCHANGED <<now, sessions, gw, sb, hubVars, pool, cmd>>

\* the response has been sent; the next request is taken
Respond ==
    /\ req.pc = "responded"
    /\ req' = ReqIdle
    /\ UNCHANGED <<now, sessions, history, gw, sb, hubVars, pool, cmd>>

----------------------------------------------------------------------------
(* The docker command of executeCode (both Docker revisions) and           *)
(* validateCode (all three revisions), as functions of the source text and *)
(* the language tag.                                                       *)

\* characters of a source text: a letter, two shell metacharacters and a
\* character outside ASCII
SourceChars == {"a", "'", ";", "U+00E9"}

\* longest source text, in characters
MaxCodeChars == 2

\* Buffer.from(code): the UTF-8 bytes of a character
Utf8(c) ==
    CASE c = "a" -> <<97>>
      [] c = "'" -> <<39>>
      [] c = ";" -> <<59>>
      [] c = "U+00E9" -> <<195, 169>>

RECURSIVE Utf8Bytes(_)
Utf8Bytes(text) ==
    IF text = <<>> THEN <<>> ELSE Utf8(Head(text)) \o Utf8Bytes(Tail(text))

RECURSIVE Texts(_)
Texts(n) ==
    IF n = 0 THEN {<<>>}
    ELSE Texts(n - 1) \cup {Append(t, c) : t \in Texts(n - 1), c \in SourceChars}

Base64Alphabet ==
    <<"A", "B", "C", "D", "E", "F", "G", "H", "I", "J", "K", "L", "M",
      "N", "O", "P", "Q", "R", "S", "T", "U", "V", "W", "X", "Y", "Z",
      "a", "b", "c", "d", "e", "f", "g", "h", "i", "j", "k", "l", "m",
      "n", "o", "p", "q", "r", "s", "t", "u", "v", "w", "x", "y", "z",
      "0", "1", "2", "3", "4", "5", "6", "7", "8", "9", "+", "/">>

Base64Pad == "="

Base64Char(sextet) == Base64Alphabet[sextet + 1]

\* .toString('base64'): three bytes give four characters; one or two
\* bytes left over give two or three characters and padding
RECURSIVE Base64(_)
Base64(bytes) ==
    IF Len(bytes) = 0 THEN <<>>
    ELSE IF Len(bytes) = 1
    THEN <<Base64Char(bytes[1] \div 4), Base64Char((bytes[1] % 4) * 16),
           Base64Pad, Base64Pad>>
    ELSE IF Len(bytes) = 2
    THEN <<Base64Char(bytes[1] \div 4),
           Base64Char((bytes[1] % 4) * 16 + bytes[2] \div 16),
           Base64Char((bytes[2] % 16) * 4),
           Base64Pad>>
    ELSE <<Base64Char(bytes[1] \div 4),
           Base64Char((bytes[1] % 4) * 16 + bytes[2] \div 16),
           Base64Char((bytes[2] % 16) * 4 + bytes[3] \div 64),
           Base64Char(bytes[3] % 64)>>
         \o Base64(SubSeq(bytes, 4, Len(bytes)))

\* the value of a character of the alphabet; base64 -d has nothing to
\* decode in a character outside it
Sextet(c) ==
    IF \E i \in 1..Len(Base64Alphabet) : Base64Alphabet[i] = c
    THEN (CHOOSE i \in 1..Len(Base64Alphabet) : Base64Alphabet[i] = c) - 1
    ELSE 0

\* `base64 -d`
RECURSIVE Base64Decode(_)
Base64Decode(chars) ==
    IF Len(chars) < 4 THEN <<>>
    ELSE LET a == Sextet(chars[1])
             b == Sextet(chars[2])
             c == Sextet(chars[3])
             d == Sextet(chars[4])
         IN  IF chars[3] = Base64Pad
             THEN <<a * 4 + b \div 16>>
             ELSE IF chars[4] = Base64Pad
             THEN <<a * 4 + b \div 16, (b % 16) * 16 + c \div 4>>
             ELSE <<a * 4 + b \div 16, (b % 16) * 16 + c \div 4, (c % 4) * 64 + d>>
                  \o Base64Decode(SubSeq(chars, 5, Len(chars)))

\* the languages whose build needs exec permission in /tmp and a whole CPU
CompiledSpawn == {Go, Rust, Cpp, Java}
CompiledTmpExec == {Go, Rust, Cpp}

\* LANGUAGE_CONFIGS[...].image
Image(variant, lang) ==
    CASE lang = Javascript -> "node:20-alpine"
      [] lang = Typescript -> "node:20-alpine"
      [] lang = Python -> "python:3.11-alpine"
      [] lang = Java -> IF variant = "spawn" THEN "eclipse-temurin:17-jdk"
                        ELSE "openjdk:17-alpine"
      [] lang = Go -> "golang:1.21-alpine"
      [] lang = Rust -> "rust:1.75-alpine"
      [] lang = Cpp -> "gcc:13-alpine"

\* the options of `docker run` up to the image
DockerArgs(variant, language, tempDir) ==
    LET lang == ToLowerCase(language)
    IN  IF variant = "spawn"
        THEN <<"run", "--rm", "--memory=256m",
               IF lang \in CompiledSpawn THEN "--cpus=1.0" ELSE "--cpus=0.5">>
             \o (IF lang = Typescript THEN <<>> ELSE <<"--network=none">>)
             \o (IF lang = Typescript THEN <<>> ELSE <<"--read-only">>)
             \o <<"--tmpfs",
                  IF lang \in CompiledSpawn THEN "/tmp:rw,exec,nosuid,size=100m"
                  ELSE "/tmp:rw,noexec,nosuid,size=10m",
                  "--tmpfs", "/workspace:rw,exec,size=10m",
                  "-w", "/workspace", Image(variant, lang)>>
        ELSE <<"run", "--rm", "--memory=128m",
               IF lang \in CompiledSpawn THEN "--cpus=1.0" ELSE "--cpus=0.5",
               "--network=none", "--read-only",
               "--tmpfs",
               IF lang \in CompiledTmpExec THEN "/tmp:rw,exec,nosuid,size=100m"
               ELSE "/tmp:rw,noexec,nosuid,size=10m",
               "-v", "\"">> \o tempDir \o <<":/workspace:ro", "\"",
               "-w", "/workspace", Image(variant, lang)>>

\* file.replace('.java', '')
ClassName(file) ==
    IF file[Len(file)] = "Main.java"
    THEN SubSeq(file, 1, Len(file) - 1) \o <<"Main">>
    ELSE IF file[Len(file)] = "java" /\ file[Len(file) - 1] = "."
    THEN SubSeq(file, 1, Len(file) - 2)
    ELSE IF file[Len(file)] = "java" /\ file[Len(file) - 1] = "code."
    THEN SubSeq(file, 1, Len(file) - 2) \o <<"code">>
    ELSE file

\* LANGUAGE_CONFIGS[...].command(file)
Command(variant, lang, file) ==
    CASE lang = Javascript -> <<"node", " ">> \o file
      [] lang = Typescript -> <<"npx -y tsx", " ">> \o file
      [] lang = Python -> <<"python", " ">> \o file
      [] lang = Java ->
           IF variant = "spawn"
           THEN <<"javac -d /tmp", " ">> \o file \o <<" ", "&", "&", " ",
                  "java -cp /tmp", " ">> \o ClassName(file)
           ELSE <<"javac", " ">> \o file \o <<" ", "&", "&", " ", "java", " ">>
                \o ClassName(file)
      [] lang = Go ->
           <<"GOCACHE=/tmp/.cache go build -o /tmp/program", " ">> \o file
           \o <<" ", "&", "&", " ", "/tmp/program">>
      [] lang = Rust ->
           <<"rustc", " ">> \o file \o <<" ", "-o /tmp/program", " ", "&", "&",
             " ", "/tmp/program">>
      [] lang = Cpp ->
           <<"g++", " ">> \o file \o <<" ", "-o /tmp/program", " ", "&", "&",
             " ", "/tmp/program">>

\* `${Math.floor((config.timeout || 5000) / 1000)}s`
TimeoutArg(variant, lang) ==
    CASE ConfigTimeout(variant, lang) = 5 -> "5s"
      [] ConfigTimeout(variant, lang) = 10 -> "10s"
      [] ConfigTimeout(variant, lang) = 15 -> "15s"

\* the command line handed to a shell.  Spawn based revision: innerCommand,
\* run by `sh -c` in the container (docker itself is started without a
\* shell).  Exec based revision: dockerCommand, run by the shell of exec().
ShellCommandRaw(variant, language, text, tempDir, filename) ==
    IF variant = "spawn"
    THEN <<"echo", " ", "'">> \o text
         \o <<"'", " ", "|", " ", "base64 -d", " ", ">", " ", "/workspace/">>
         \o filename \o <<" ", "&", "&", " ">>
         \o Command(variant, ToLowerCase(language), <<"/workspace/">> \o filename)
    ELSE <<"docker", " ">> \o DockerArgs(variant, language, tempDir)
         \o <<" ", "timeout", " ", TimeoutArg(variant, ToLowerCase(language)),
              " ", "sh -c", " ", "\"">>
         \o Command(variant, ToLowerCase(language), filename) \o <<"\"">>

ShellCommand(variant, language, text, tempDir, filename) ==
    IF variant = "spawn"
    THEN <<"echo", " ", "'">> \o Base64(Utf8Bytes(text))
         \o <<"'", " ", "|", " ", "base64 -d", " ", ">", " ", "/workspace/">>
         \o filename \o <<" ", "&", "&", " ">>
         \o Command(variant, ToLowerCase(language), <<"/workspace/">> \o filename)
    ELSE <<"docker", " ">> \o DockerArgs(variant, language, tempDir)
         \o <<" ", "timeout", " ", TimeoutArg(variant, ToLowerCase(language)),
              " ", "sh -c", " ", "\"">>
         \o Command(variant, ToLowerCase(language), filename) \o <<"\"">>

\* positions of the single quotes of a command line
Quotes(shell) == {i \in 1..Len(shell) : shell[i] = "'"}

FirstQuote(shell) == CHOOSE i \in Quotes(shell) : \A j \in Quotes(shell) : i <= j
LastQuote(shell) == CHOOSE i \in Quotes(shell) : \A j \in Quotes(shell) : j <= i

\* what stands between the first and the last single quote
Payload(shell) ==
    IF Quotes(shell) = {} THEN <<>>
    ELSE SubSeq(shell, FirstQuote(shell) + 1, LastQuote(shell) - 1)

\* the command line without that
Frame(shell) ==
    IF Quotes(shell) = {} THEN shell
    ELSE SubSeq(shell, 1, FirstQuote(shell))
         \o SubSeq(shell, LastQuote(shell), Len(shell))

DangerousMsg ==
    <<"Code contains potentially dangerous operations that are not allowed">>

\* validateCode of the Docker revisions; dangerous is whether one of the
\* six dangerousPatterns matches the code
validateCodeDocker(code, dangerous, language) ==
    IF FalsyCode(code) \/ code.trimLen = 0
    THEN Invalid(EmptyCodeMsg)
    ELSE IF code.len > MaxCodeLength
    THEN Invalid(TooLongMsg)
    ELSE IF ToLowerCase(language) \notin LANGUAGE_CONFIGS
    THEN Invalid(UnsupportedMsg(language))
    ELSE IF dangerous
    THEN Invalid(DangerousMsg)
    ELSE Valid

\* what a read of an identifier that the module does not declare throws
ReferenceError ==
    [valid |-> FALSE, error |-> <<"ReferenceError: LANGUAGE_CONFIGS is not defined">>]

\* validateCode of the revision that keeps PISTON_LANGUAGES but looks the
\* language up in LANGUAGE_CONFIGS, which that module does not declare:
\* the third check throws
validateCodeUndeclared(code, language) ==
    IF FalsyCode(code) \/ code.trimLen = 0
    THEN Invalid(EmptyCodeMsg)
    ELSE IF code.len > MaxCodeLength
    THEN Invalid(TooLongMsg)
    ELSE ReferenceError

NoInput == [code |-> NoCode, dangerous |-> FALSE]

CmdIdle ==
    [pc |-> "idle", variant |-> "none", language |-> EmptyStr,
     input |-> NoInput, validation |-> Valid,
     text |-> <<>>, executionId |-> "none", filename |-> <<>>,
     args |-> <<>>, shell |-> <<>>, file |-> <<>>]

\* strings the validation is tried on: empty, blank, short, of exactly the
\* ceiling, one character over it, and blank and over it
ValidateInputs ==
    {Code(0, 0), Code(3, 0), Code(5, 5), Code(MaxCodeLength, MaxCodeLength),
     Code(MaxCodeLength + 1, MaxCodeLength + 1), Code(MaxCodeLength + 1, 0)}

\* a call of validateCode in one of the revisions: the gateway, the one
\* with the undeclared table, and the two Docker revisions
CmdValidate(variant, code, dangerous, language) ==
    /\ cmd.pc = "idle"
    /\ dangerous => code.trimLen > 0 /\ variant \in {"spawn", "exec"}
    /\ LET validation ==
             CASE variant = "gateway" -> validateCode(code, language)
               [] variant = "undeclared" -> validateCodeUndeclared(code, language)
               [] OTHER -> validateCodeDocker(code, dangerous, language)
       IN  cmd' = [CmdIdle EXCEPT
              !.pc = IF validation = ReferenceError THEN "validateThrew"
                     ELSE "validated",
              !.variant = variant, !.language = language,
              !.input = [code |-> code, dangerous |-> dangerous],
              !.validation = validation]
    /\ UNCHANGED <<storeVars, gw, sb, pool, hubVars>>

\* executeCode from its entry to the start of docker: the names, the
\* options and the command line; the exec based revision has written the
\* source to filepath
CmdBuild(variant, language, text, uuid) ==
    /\ cmd.pc = "idle"
    /\ IF ToLowerCase(language) \notin LANGUAGE_CONFIGS
       THEN cmd' = [CmdIdle EXCEPT !.pc = "threw", !.variant = variant,
                                   !.language = language, !.text = text]
       ELSE LET executionId == IF variant = "exec" THEN uuid ELSE "none"
                filename == Filename(variant, language, executionId)
                tempDir == TempDir(executionId)
            IN  cmd' = [CmdIdle EXCEPT
                   !.pc = "built", !.variant = variant, !.language = language,
                   !.text = text, !.executionId = executionId,
                   !.filename = filename,
                   !.args = DockerArgs(variant, language, tempDir),
                   !.shell = ShellCommand(variant, language, text, tempDir, filename),
                   !.file = IF variant = "exec" THEN Utf8Bytes(text) ELSE <<>>]
    /\ UNCHANGED <<storeVars, gw, sb, pool, hubVars>>

\* the shell runs the command line: in the spawn based revision the
\* quoted word is piped through `base64 -d` into the source file; in the
\* exec based revision the file written before is mounted
CmdRun ==
    /\ cmd.pc = "built"
    /\ cmd' = [cmd EXCEPT
          !.pc = "ran",
          !.file = IF cmd.variant = "spawn"
                   THEN Base64Decode(Payload(cmd.shell))
                   ELSE @]
    /\ UNCHANGED <<storeVars, gw, sb, pool, hubVars>>

CmdReturn ==
    /\ cmd.pc \in {"validated", "validateThrew", "threw", "ran"}
    /\ cmd' = CmdIdle
    /\ UNCHANGED <<storeVars, gw, sb, pool, hubVars>>

----------------------------------------------------------------------------
(* Presence hub: websocket/handler.ts                                      *)
(*                                                                         *)
(* All handlers share one Redis connection: commands are served in the     *)
(* order they were sent and their replies come back in that order.  A      *)
(* continuation runs when its reply is taken from the head of the queue;   *)
(* the effect of a command on the hash is applied at that point, which     *)
(* gives the same order of reads and writes.  Several replies may arrive   *)
(* in one chunk: their continuations run one after the other up to their   *)
(* next await, and a continuation that awaits fetchSockets (which settles  *)
(* without I/O) resumes after them and before any other event is taken.    *)

SocketIds == {"a", "b"}

\* a user record of the hash (its joinedAt stamp is not kept)
NoUser == [present |-> FALSE, username |-> Undefined]

User(username) == [present |-> TRUE, username |-> username]

DefaultUsername(s) == <<"User-", s>>

JoinIdle ==
    [pc |-> "idle", sessionId |-> "s1", username |-> Undefined, user |-> NoUser,
     usersData |-> [t \in SocketIds |-> NoUser], connected |-> {},
     target |-> "a", snap |-> 0]

\* the username-change / language-change handler of a socket, the kinds of
\* event the client has sent so far, and the sockets that had asked to join
\* the session when the handler's update of the session row was applied
OpIdle ==
    [pc |-> "idle", sessionId |-> "s1", value |-> Undefined, sent |-> {},
     before |-> {}]

\* an emitted event: its room, the sockets it is delivered to, the socket
\* it originates from, the user list it carries, and the number of writes
\* the hash had seen when that list was read
Event(event, sid, to, userId, payload, snap) ==
    [event |-> event, sessionId |-> sid, to |-> to, userId |-> userId,
     payload |-> payload, snap |-> snap]

\* the sockets that are in a room, on whatever server instance
InRoom(sid) == {t \in SocketIds : sid \in sockets[t].rooms}

\* io.in(room) / io.to(room) on the instance that serves socket s: without
\* an adapter that spans instances, the sockets of the room that are
\* connected to that instance
LocalRoom(s, sid) ==
    {t \in InRoom(sid) : sockets[t].instance = sockets[s].instance}

RedisIdle ==
    [queue |-> <<>>, micro |-> <<>>, inbox |-> 0,
     version |-> [sid \in SessionIds |-> 0]]

\* no continuation is waiting to resume: the next event can be taken
Quiet == redis.micro = <<>>

\* the reply awaited by handler h of socket s is the next one to be taken
RedisReply(s, h) ==
    /\ redis.queue # <<>>
    /\ Head(redis.queue) = <<s, h>>
    /\ (redis.micro = <<>> \/ redis.inbox > 0)

\* the connection after that reply was taken and command `sends` was sent
Replied(sends) ==
    [redis EXCEPT !.queue = Tail(@) \o sends,
                  !.inbox = IF @ > 0 THEN @ - 1 ELSE 0]

\* a socket before its client connects; instance is the server instance
\* the load balancer will hand the connection to
NewSocket(instance) ==
    [state |-> "new", rooms |-> {}, joined |-> {}, instance |-> instance]

\* a client connects
Connect(s) ==
    /\ Quiet
    /\ sockets[s].state = "new"
    /\ sockets' = [sockets EXCEPT ![s].state = "connected"]
    /\ UNCHANGED <<storeVars, gw, sb, pool, cmd, users, joins, emitted, ops, redis>>

\* lines 134-152: socket.io leaves every room before it emits 'disconnect',
\* so the handler's loop over socket.rooms has nothing to visit
Disconnect(s) ==
    /\ Quiet
    /\ sockets[s].state = "connected"
    /\ sockets' = [sockets EXCEPT ![s].state = "closed", ![s].rooms = {}]
    /\ UNCHANGED <<storeVars, gw, sb, pool, cmd, users, joins, emitted, ops, redis>>

\* lines 29-44: socket.join, the user record, and the hset is sent
JoinBegin(s, sid, username) ==
    /\ Quiet
    /\ sockets[s].state = "connected"
    /\ joins[s].pc = "idle"
    /\ sid \notin sockets[s].joined
    /\ sockets' = [sockets EXCEPT ![s].rooms = @ \cup {sid},
                                  ![s].joined = @ \cup {sid}]
    /\ joins' = [joins EXCEPT ![s] =
           [JoinIdle EXCEPT
              !.pc = "hset", !.sessionId = sid, !.username = username,
              !.user = User(OrElse(username, DefaultUsername(s)))]]
    /\ redis' = [redis EXCEPT !.queue = Append(@, <<s, "join">>)]
    /\ UNCHANGED <<storeVars, gw, sb, pool, cmd, users, emitted, ops>>

\* lines 78-81: the catch block
JoinFailed(s) ==
    /\ emitted' = Append(emitted,
          Event("error", joins[s].sessionId,
                IF sockets[s].state = "connected" THEN {s} ELSE {}, s, {}, 0))
    /\ joins' = [joins EXCEPT ![s] = JoinIdle]

\* lines 40-47: the hset's reply; the hgetall is sent
JoinHset(s, ok) ==
    /\ RedisReply(s, "join")
    /\ joins[s].pc = "hset"
    /\ IF ok
       THEN /\ users' = [users EXCEPT ![joins[s].sessionId][s] = joins[s].user]
            /\ joins' = [joins EXCEPT ![s].pc = "hgetall"]
            /\ redis' = [Replied(<<<<s, "join">>>>) EXCEPT
                            !.version[joins[s].sessionId] = @ + 1]
            /\ UNCHANGED emitted
       ELSE /\ JoinFailed(s)
            /\ redis' = Replied(<<>>)
            /\ UNCHANGED users
    /\ UNCHANGED <<storeVars, gw, sb, pool, cmd, sockets, ops>>

\* lines 47-48: the hgetall's reply; fetchSockets is awaited.  more is the
\* number of further replies that arrived in the same chunk.
JoinHgetall(s, more) ==
    /\ RedisReply(s, "join")
    /\ joins[s].pc = "hgetall"
    /\ more <= Len(redis.queue) - 1
    /\ redis.inbox > 0 => more = 0
    /\ joins' = [joins EXCEPT ![s].pc = "fetchSockets",
                              ![s].usersData = users[joins[s].sessionId],
                              ![s].snap = redis.version[joins[s].sessionId]]
    /\ redis' = [redis EXCEPT !.queue = Tail(@),
                              !.micro = Append(@, s),
                              !.inbox = IF @ > 0 THEN @ - 1 ELSE more]
    /\ UNCHANGED <<storeVars, gw, sb, pool, cmd, sockets, users, emitted, ops>>

\* the continuation of socket s is the next one to resume
Resumes(s) ==
    /\ redis.micro # <<>>
    /\ Head(redis.micro) = s
    /\ redis.inbox = 0

\* lines 48-52: the sockets of the room, plus the joining socket
JoinFetchSockets(s) ==
    /\ Resumes(s)
    /\ joins[s].pc = "fetchSockets"
    /\ joins' = [joins EXCEPT ![s].pc = "cleanup",
                              ![s].connected = LocalRoom(s, joins[s].sessionId) \cup {s}]
    /\ UNCHANGED <<storeVars, gw, sb, pool, cmd, sockets, users, emitted, ops, redis>>

\* entries of the hgetall reply whose socket is not connected and whose
\* hdel has not been done yet
Stale(s) ==
    {t \in SocketIds : joins[s].usersData[t].present /\ t \notin joins[s].connected}

\* lines 56-62: the loop reaches a stale entry and sends its hdel
JoinCleanup(s, t) ==
    /\ Resumes(s)
    /\ joins[s].pc = "cleanup"
    /\ t \in Stale(s)
    /\ joins' = [joins EXCEPT ![s].pc = "hdel", ![s].target = t]
    /\ redis' = [redis EXCEPT !.micro = Tail(@), !.queue = Append(@, <<s, "join">>)]
    /\ UNCHANGED <<storeVars, gw, sb, pool, cmd, sockets, users, emitted, ops>>

\* the user-joined event of line 66, from the handler's locals j
UserJoined(s, j) ==
    Event("user-joined", j.sessionId, LocalRoom(s, j.sessionId), s,
          {t \in SocketIds : j.usersData[t].present}, j.snap)

\* lines 56-71: the hdel's reply; the loop goes on to the next stale entry,
\* or ends, and then user-joined goes to the room and the session lookup
\* is issued
JoinHdel(s) ==
    /\ RedisReply(s, "join")
    /\ joins[s].pc = "hdel"
    /\ LET sid == joins[s].sessionId
           t == joins[s].target
           j == [joins[s] EXCEPT
                   !.usersData[t] = NoUser,
                   !.snap = IF redis.version[sid] = @ THEN @ + 1 ELSE @]
           rest == Stale(s) \ {t}
       IN  /\ users' = [users EXCEPT ![sid][t] = NoUser]
           /\ IF rest # {}
              THEN /\ \E t2 \in rest :
                         joins' = [joins EXCEPT ![s] = [j EXCEPT !.target = t2]]
                   /\ redis' = [Replied(<<<<s, "join">>>>) EXCEPT !.version[sid] = @ + 1]
                   /\ UNCHANGED emitted
              ELSE /\ joins' = [joins EXCEPT ![s] = [j EXCEPT !.pc = "findSession"]]
                   /\ redis' = [Replied(<<>>) EXCEPT !.version[sid] = @ + 1]
                   /\ emitted' = Append(emitted, UserJoined(s, j))
    /\ UNCHANGED <<storeVars, gw, sb, pool, cmd, sockets, ops>>

\* lines 65-71: a loop without a stale entry ends at once; user-joined goes
\* to the room and the session lookup is issued
JoinEmit(s) ==
    /\ Resumes(s)
    /\ joins[s].pc = "cleanup"
    /\ Stale(s) = {}
    /\ emitted' = Append(emitted, UserJoined(s, joins[s]))
    /\ joins' = [joins EXCEPT ![s].pc = "findSession"]
    /\ redis' = [redis EXCEPT !.micro = Tail(@)]
    /\ UNCHANGED <<storeVars, gw, sb, pool, cmd, sockets, users, ops>>

\* lines 69-77: the lookup's answer; session-state goes to the joining
\* socket when the session exists
JoinStateToRoom(s, ok) ==
    /\ Quiet
    /\ joins[s].pc = "findSession"
    /\ IF ~ok
       THEN JoinFailed(s)
       ELSE /\ joins' = [joins EXCEPT ![s] = JoinIdle]
            /\ emitted' =
                 IF sessions[joins[s].sessionId].exists
                 THEN Append(emitted,
                        Event("session-state", joins[s].sessionId,
                              LocalRoom(s, joins[s].sessionId),
                              s, {sessions[joins[s].sessionId].language}, 0))
                 ELSE emitted
    /\ UNCHANGED <<storeVars, gw, sb, pool, cmd, sockets, users, ops, redis>>

JoinState(s, ok) ==
    /\ Quiet
    /\ joins[s].pc = "findSession"
    /\ IF ~ok
       THEN JoinFailed(s)
       ELSE /\ joins' = [joins EXCEPT ![s] = JoinIdle]
            /\ emitted' =
                 IF sessions[joins[s].sessionId].exists
                 THEN Append(emitted,
                        Event("session-state", joins[s].sessionId,
                              IF sockets[s].state = "connected" THEN {s} ELSE {},
                              s, {sessions[joins[s].sessionId].language}, 0))
                 ELSE emitted
    /\ UNCHANGED <<storeVars, gw, sb, pool, cmd, sockets, users, ops, redis>>

\* lines 84-91: cursor-change goes to the room named by the client, except
\* to the sender
CursorChangeToAll(s, sid) ==
    /\ Quiet
    /\ sockets[s].state = "connected"
    /\ "cursor-change" \notin ops[s].sent
    /\ emitted' = Append(emitted,
          Event("remote-cursor", sid,
                {t \in SocketIds : /\ sockets[t].state = "connected"
                                    /\ sockets[t].instance = sockets[s].instance}
                  \ {s}, s, {}, 0))
    /\ ops' = [ops EXCEPT ![s].sent = @ \cup {"cursor-change"}]
    /\ UNCHANGED <<storeVars, gw, sb, pool, cmd, sockets, users, joins, redis>>

CursorChange(s, sid) ==
    /\ Quiet
    /\ sockets[s].state = "connected"
    /\ "cursor-change" \notin ops[s].sent
    /\ emitted' = Append(emitted,
          Event("remote-cursor", sid, LocalRoom(s, sid) \ {s}, s, {}, 0))
    /\ ops' = [ops EXCEPT ![s].sent = @ \cup {"cursor-change"}]
    /\ UNCHANGED <<storeVars, gw, sb, pool, cmd, sockets, users, joins, redis>>

\* lines 93-99: language-change issues the update of the session row
LanguageChange(s, sid, language) ==
    /\ Quiet
    /\ sockets[s].state = "connected"
    /\ ops[s].pc = "idle"
    /\ "language-change" \notin ops[s].sent
    /\ ops' = [ops EXCEPT ![s] = [OpIdle EXCEPT
                  !.pc = "update", !.sessionId = sid, !.value = language,
                  !.sent = ops[s].sent \cup {"language-change"}]]
    /\ UNCHANGED <<storeVars, gw, sb, pool, cmd, sockets, users, joins, emitted, redis>>

\* lines 96-99: the database applies the update, or fails to; an update of
\* a missing row fails
LanguageWriteSkipped(s, ok) ==
    /\ ops[s].pc = "update"
    /\ ops' = [ops EXCEPT ![s].pc = "updated"]
    /\ UNCHANGED <<storeVars, gw, sb, pool, cmd, sockets, users, joins, emitted, redis>>

LanguageWrite(s, ok) ==
    /\ ops[s].pc = "update"
    /\ IF ok /\ sessions[ops[s].sessionId].exists
       THEN /\ sessions' = [sessions EXCEPT ![ops[s].sessionId].language = ops[s].value]
            /\ ops' = [ops EXCEPT
                  ![s].pc = "updated",
                  ![s].before = {t \in SocketIds : ops[s].sessionId \in sockets[t].joined}]
       ELSE /\ ops' = [ops EXCEPT ![s].pc = "failed"]
            /\ UNCHANGED sessions
    /\ UNCHANGED <<now, history, req, gw, sb, pool, cmd, sockets, users, joins, emitted, redis>>

\* lines 96-104: the update's answer; language-changed goes to the room.
\* After a failed update the catch block only logs.
LanguageUpdateToOthers(s) ==
    /\ Quiet
    /\ ops[s].pc \in {"updated", "failed"}
    /\ ops' = [ops EXCEPT ![s] = [OpIdle EXCEPT !.sent = ops[s].sent]]
    /\ emitted' =
         IF ops[s].pc = "updated"
         THEN Append(emitted,
                Event("language-changed", ops[s].sessionId,
                      LocalRoom(s, ops[s].sessionId) \ {s}, s, {ops[s].value}, 0))
         ELSE emitted
    /\ UNCHANGED <<storeVars, gw, sb, pool, cmd, sockets, users, joins, redis>>

LanguageUpdate(s) ==
    /\ Quiet
    /\ ops[s].pc \in {"updated", "failed"}
    /\ ops' = [ops EXCEPT ![s] = [OpIdle EXCEPT !.sent = ops[s].sent]]
    /\ emitted' =
         IF ops[s].pc = "updated"
         THEN Append(emitted,
                Event("language-changed", ops[s].sessionId,
                      LocalRoom(s, ops[s].sessionId), s, {ops[s].value}, 0))
         ELSE emitted
    /\ UNCHANGED <<storeVars, gw, sb, pool, cmd, sockets, users, joins, redis>>

\* lines 107-112: username-change sends the hget of the socket's record
UsernameChange(s, sid, username) ==
    /\ Quiet
    /\ sockets[s].state = "connected"
    /\ ops[s].pc = "idle"
    /\ "username-change" \notin ops[s].sent
    /\ ops' = [ops EXCEPT ![s] = [OpIdle EXCEPT
                  !.pc = "hget", !.sessionId = sid, !.value = username,
                  !.sent = ops[s].sent \cup {"username-change"}]]
    /\ redis' = [redis EXCEPT !.queue = Append(@, <<s, "op">>)]
    /\ UNCHANGED <<storeVars, gw, sb, pool, cmd, sockets, users, joins, emitted>>

\* lines 112-120: the hget's reply; with a record, the hset is sent
UsernameHget(s) ==
    /\ RedisReply(s, "op")
    /\ ops[s].pc = "hget"
    /\ IF users[ops[s].sessionId][s].present
       THEN /\ ops' = [ops EXCEPT ![s].pc = "hset"]
            /\ redis' = Replied(<<<<s, "op">>>>)
       ELSE /\ ops' = [ops EXCEPT ![s] = [OpIdle EXCEPT !.sent = ops[s].sent]]
            /\ redis' = Replied(<<>>)
    /\ UNCHANGED <<storeVars, gw, sb, pool, cmd, sockets, users, joins, emitted>>

\* lines 116-123: the hset's reply; the hgetall is sent
UsernameHset(s) ==
    /\ RedisReply(s, "op")
    /\ ops[s].pc = "hset"
    /\ users' = [users EXCEPT ![ops[s].sessionId][s] = User(ops[s].value)]
    /\ ops' = [ops EXCEPT ![s].pc = "hgetall"]
    /\ redis' = [Replied(<<<<s, "op">>>>) EXCEPT
                    !.version[ops[s].sessionId] = @ + 1]
    /\ UNCHANGED <<storeVars, gw, sb, pool, cmd, sockets, joins, emitted>>

\* lines 123-127: the hgetall's reply; username-changed goes to the room
\* with every record of the hash
UsernameHgetall(s) ==
    /\ RedisReply(s, "op")
    /\ ops[s].pc = "hgetall"
    /\ emitted' = Append(emitted,
          Event("username-changed", ops[s].sessionId,
                LocalRoom(s, ops[s].sessionId), s,
                {t \in SocketIds : users[ops[s].sessionId][t].present},
                redis.version[ops[s].sessionId]))
    /\ ops' = [ops EXCEPT ![s] = [OpIdle EXCEPT !.sent = ops[s].sent]]
    /\ redis' = Replied(<<>>)
    /\ UNCHANGED <<storeVars, gw, sb, pool, cmd, sockets, users, joins>>

----------------------------------------------------------------------------
(* Specifications                                                          *)

Init ==
    /\ now = 0
    /\ sessions = [id \in SessionIds |-> NoSession]
    /\ history = <<>>
    /\ req = ReqIdle
    /\ gw = GwIdle
    /\ sb = SbIdle
    /\ pool = PoolIdle
    /\ cmd = CmdIdle
    /\ sockets = [s \in SocketIds |-> NewSocket("n1")]
    /\ users = [id \in SessionIds |-> [s \in SocketIds |-> NoUser]]
    /\ joins = [s \in SocketIds |-> JoinIdle]
    /\ emitted = <<>>
    /\ ops = [s \in SocketIds |-> OpIdle]
    /\ redis = RedisIdle

\* the session routes over the persistent store
NextRoute ==
    \/ Tick
    \/ \E id \in SessionIds : CreateSession(id, Javascript)
    \/ \E id \in SessionIds : GetSession(id)
    \/ \E id \in SessionIds, code \in CodeInputs, language \in RouteLanguageInputs :
          ExecuteReceive(id, code, language)
    \/ ExecuteLookup
    \/ \E result \in ExecuteCodeResults : ExecuteDone(result)
    \/ \E ok \in BOOLEAN : ExecuteSave(ok)
    \/ Respond

SpecRoute == Init /\ [][NextRoute]_vars

\* calls of the gateway's executeCode
NextGateway ==
    \/ \E language \in LanguageInputs : GwCall(language)
    \/ GwDelay
    \/ \E r \in RemoteResponses : GwFetch(r)
    \/ GwFetchThrows
    \/ GwReadError
    \/ GwAfter
    \/ GwReturn

SpecGateway == Init /\ [][NextGateway]_vars

\* calls of the sandbox's executeCode
NextSandbox ==
    \/ \E variant \in {"spawn", "exec"}, language \in {Javascript, JavaUpper, Cobol},
          fsFail \in {"none", "mkdir", "writeFile"}, spawnOk \in BOOLEAN :
          SbCall(variant, language, fsFail, spawnOk)
    \/ \E closeFollows \in BOOLEAN : SbError(closeFollows)
    \/ SbTick
    \/ SbStdout
    \/ \E chunk \in StderrChunks : SbStderr(chunk)
    \/ SbDockerFails
    \/ \E c \in ProgramExitCodes : SbProgramExit(c)
    \/ \E c \in InnerTimeoutExitCodes : SbInnerTimeout(c)
    \/ SbKillTimer
    \/ SbClose
    \/ SbReturn

SpecSandbox == Init /\ [][NextSandbox]_vars

\* the Redis commands that can be awaiting their reply together: one of the
\* join handler and one of the other handlers, for each socket
MaxInFlight == 2 * Cardinality(SocketIds)

\* the join-session events the clients send: socket a names itself and
\* may join either session, socket b joins s1 without a name
JoinInputs ==
    {<<"a", sid, <<"Ann">>>> : sid \in SessionIds} \cup {<<"b", "s1", Undefined>>}

\* the presence hub over a store that holds session s1
NextHub ==
    \/ Tick
    \/ \E s \in SocketIds : Connect(s)
    \/ \E s \in SocketIds : Disconnect(s)
    \/ \E j \in JoinInputs : JoinBegin(j[1], j[2], j[3])
    \/ \E s \in SocketIds, ok \in BOOLEAN : JoinHset(s, ok)
    \/ \E s \in SocketIds, more \in 0..MaxInFlight : JoinHgetall(s, more)
    \/ \E s \in SocketIds : JoinFetchSockets(s)
    \/ \E s, t \in SocketIds : JoinCleanup(s, t)
    \/ \E s \in SocketIds : JoinHdel(s)
    \/ \E s \in SocketIds : JoinEmit(s)
    \/ \E s \in SocketIds, ok \in BOOLEAN : JoinState(s, ok)

InitHub ==
    /\ now = 0
    /\ sessions = [id \in SessionIds |->
          IF id = "s1"
          THEN [exists |-> TRUE, language |-> Javascript, expiresAt |-> SessionTtl]
          ELSE NoSession]
    /\ history = <<>>
    /\ req = ReqIdle
    /\ gw = GwIdle
    /\ sb = SbIdle
    /\ pool = PoolIdle
    /\ cmd = CmdIdle
    /\ sockets = [s \in SocketIds |-> NewSocket("n1")]
    /\ users = [id \in SessionIds |-> [s \in SocketIds |-> NoUser]]
    /\ joins = [s \in SocketIds |-> JoinIdle]
    /\ emitted = <<>>
    /\ ops = [s \in SocketIds |-> OpIdle]
    /\ redis = RedisIdle

SpecHub == InitHub /\ [][NextHub]_vars

\* calls of the sandbox's executeCode under the scheduling of Node and the
\* operating system: time passes, a due timer fires, and the events of the
\* child process are delivered
SandboxFairness ==
    /\ WF_vars(SbTick)
    /\ WF_vars(\E c \in InnerTimeoutExitCodes : SbInnerTimeout(c))
    /\ WF_vars(SbKillTimer)
    /\ WF_vars(SbClose)
    /\ WF_vars(\E closeFollows \in BOOLEAN : SbError(closeFollows))

SpecSandboxLive == Init /\ [][NextSandbox]_vars /\ SandboxFairness

\* calls of the sandbox's executeCode in flight together
NextPool ==
    \/ \E k \in CallIds, variant \in {"spawn", "exec"},
          language \in {Java, Python}, uuid \in Uuids :
          PoolCall(k, variant, language, uuid)
    \/ \E k \in CallIds, c \in ContainerIds : PoolRun(k, c)
    \/ \E k \in CallIds : PoolFinish(k)

SpecPool == Init /\ [][NextPool]_vars

\* everything that one connection and one HTTP client do to session s1:
\* socket a joins, moves its cursor, changes the language, renames itself
\* and disconnects, while code tagged JAVA is executed for the session
NextSession ==
    \/ Connect("a")
    \/ Disconnect("a")
    \/ JoinBegin("a", "s1", <<"Ann">>)
    \/ JoinHset("a", TRUE)
    \/ \E more \in 0..1 : JoinHgetall("a", more)
    \/ JoinFetchSockets("a")
    \/ JoinEmit("a")
    \/ JoinState("a", TRUE)
    \/ CursorChange("a", "s1")
    \/ LanguageChange("a", "s1", Python)
    \/ \E ok \in BOOLEAN : LanguageWrite("a", ok)
    \/ LanguageUpdate("a")
    \/ UsernameChange("a", "s1", <<"Bob">>)
    \/ UsernameHget("a")
    \/ UsernameHset("a")
    \/ UsernameHgetall("a")
    \/ ExecuteReceive("s1", Code(5, 5), Lang(JavaUpper))
    \/ ExecuteLookup
    \/ \E result \in ExecuteCodeResults : ExecuteDone(result)
    \/ \E ok \in BOOLEAN : ExecuteSave(ok)
    \/ Respond

SpecSession == InitHub /\ [][NextSession]_vars

\* calls of validateCode and of the Docker executeCode over source texts
\* and language tags
NextCommand ==
    \/ \E variant \in {"gateway", "undeclared", "spawn", "exec"},
          code \in ValidateInputs,
          dangerous \in BOOLEAN, language \in {Javascript, JavaUpper, Cobol} :
          CmdValidate(variant, code, dangerous, language)
    \/ \E variant \in {"spawn", "exec"},
          language \in {Javascript, Typescript, Java, JavaUpper, Cobol},
          text \in Texts(MaxCodeChars), uuid \in {"u1"} :
          CmdBuild(variant, language, text, uuid)
    \/ CmdRun
    \/ CmdReturn

SpecCommand == Init /\ [][NextCommand]_vars

\* the events of the presence hub that carry no user list, next to the
\* joins: socket a sends cursor-change and socket b sends language-change
\* for s1, each at most once
NextPresence ==
    \/ \E s \in SocketIds : Connect(s)
    \/ \E s \in SocketIds : Disconnect(s)
    \/ \E j \in JoinInputs : JoinBegin(j[1], j[2], j[3])
    \/ \E s \in SocketIds : JoinHset(s, TRUE)
    \/ \E s \in SocketIds, more \in 0..MaxInFlight : JoinHgetall(s, more)
    \/ \E s \in SocketIds : JoinFetchSockets(s)
    \/ \E s, t \in SocketIds : JoinCleanup(s, t)
    \/ \E s \in SocketIds : JoinHdel(s)
    \/ \E s \in SocketIds : JoinEmit(s)
    \/ \E s \in SocketIds : JoinState(s, TRUE)
    \/ CursorChange("a", "s1")
    \/ LanguageChange("b", "s1", Python)
    \/ \E ok \in BOOLEAN : LanguageWrite("b", ok)
    \/ LanguageUpdate("b")

SpecPresence == InitHub /\ [][NextPresence]_vars

\* the writers of the users hash of s1: both sockets join it, and each may
\* rename itself once
NextRoster ==
    \/ \E s \in SocketIds : Connect(s)
    \/ \E s \in SocketIds : Disconnect(s)
    \/ \E s \in SocketIds : JoinBegin(s, "s1", Undefined)
    \/ \E s \in SocketIds : JoinHset(s, TRUE)
    \/ \E s \in SocketIds, more \in 0..MaxInFlight : JoinHgetall(s, more)
    \/ \E s \in SocketIds : JoinFetchSockets(s)
    \/ \E s, t \in SocketIds : JoinCleanup(s, t)
    \/ \E s \in SocketIds : JoinHdel(s)
    \/ \E s \in SocketIds : JoinEmit(s)
    \/ \E s \in SocketIds : JoinState(s, TRUE)
    \/ \E s \in SocketIds : UsernameChange(s, "s1", <<"Bob">>)
    \/ \E s \in SocketIds : UsernameHget(s)
    \/ \E s \in SocketIds : UsernameHset(s)
    \/ \E s \in SocketIds : UsernameHgetall(s)

SpecRoster == InitHub /\ [][NextRoster]_vars

\* the presence hub on two server instances that share the Redis server
\* and the database: socket a is connected to one, socket b to the other
InitCluster ==
    /\ now = 0
    /\ sessions = [id \in SessionIds |->
          IF id = "s1"
          THEN [exists |-> TRUE, language |-> Javascript, expiresAt |-> SessionTtl]
          ELSE NoSession]
    /\ history = <<>>
    /\ req = ReqIdle
    /\ gw = GwIdle
    /\ sb = SbIdle
    /\ pool = PoolIdle
    /\ cmd = CmdIdle
    /\ sockets = [s \in SocketIds |-> NewSocket(IF s = "a" THEN "n1" ELSE "n2")]
    /\ users = [id \in SessionIds |-> [s \in SocketIds |-> NoUser]]
    /\ joins = [s \in SocketIds |-> JoinIdle]
    /\ emitted = <<>>
    /\ ops = [s \in SocketIds |-> OpIdle]
    /\ redis = RedisIdle

SpecCluster == InitCluster /\ [][NextPresence]_vars

----------------------------------------------------------------------------
(* Properties of POST /:id/execute                                         *)

RejectionStatuses == {400, 404, 410}

\* a step of the execute handler that decides the request: it answers, or
\* it calls executeCode
Decides == req.pc \in {"idle", "lookup"} /\ req'.kind = "execute"
           /\ req'.pc \in {"responded", "executing"}

\* the status the stated order of checks gives: session, then code, then
\* language (0: the request passes)
StatedFailure(session, code, language) ==
    IF ~session.exists THEN 404
    ELSE IF Expired(session) THEN 410
    ELSE IF FalsyCode(code) \/ code.trimLen = 0 \/ code.len > MaxCodeLength THEN 400
    ELSE IF FalsyLang(language) \/ ToLowerCase(language.tag) \notin PISTON_LANGUAGES
    THEN 400
    ELSE 0

\* the order of checks of the route: both fields present, session exists,
\* code not blank, code under the ceiling, language supported
RouteFailure(session, code, language) ==
    IF FalsyCode(code) \/ FalsyLang(language) THEN <<400, RequiredMsg>>
    ELSE IF ~session.exists THEN <<404, NotFoundMsg>>
    ELSE IF code.trimLen = 0 THEN <<400, EmptyCodeMsg>>
    ELSE IF code.len > MaxCodeLength THEN <<400, TooLongMsg>>
    ELSE IF ToLowerCase(language.tag) \notin PISTON_LANGUAGES
    THEN <<400, UnsupportedMsg(language.tag)>>
    ELSE <<0, Undefined>>

C2_ExpiredSessionRejected ==
    [][(/\ req.pc = "lookup"
        /\ req' # req
        /\ sessions[req.sessionId].exists
        /\ Expired(sessions[req.sessionId]))
       => (/\ req'.pc = "responded"
           /\ req'.response.status = 410
           /\ ~req'.executed
           /\ sessions' = sessions)]_vars

\* C4: a step that answers an execute request with 400, 404 or 410 has
\* not called executeCode and leaves the history unchanged; code over the
\* ceiling is rejected with the message that names the limit.
C4_RejectedNoSideEffects ==
    [][(/\ req'.kind = "execute"
        /\ req.pc # "responded"
        /\ req'.pc = "responded"
        /\ req'.response.status \in RejectionStatuses)
       => (/\ ~req'.executed
           /\ history' = history
           /\ (req.pc = "lookup" /\ req'.response.status = 400
               /\ req'.code.trimLen > 0 /\ req'.code.len > MaxCodeLength
               => req'.response.error = TooLongMsg))]_vars

\* C4 witness: code over the ceiling was rejected with the limit message,
\* nothing was executed and nothing was recorded
C4_Witness ==
    /\ req.kind = "execute"
    /\ req.pc = "responded"
    /\ req.code.len > MaxCodeLength
    /\ req.response = HttpResponse(400, TooLongMsg, NoResult)
    /\ ~req.executed
    /\ history = <<>>

----------------------------------------------------------------------------
(* Properties of join-session                                              *)

\* C3 as stated: no step registers a connection in the room of a session
\* whose expiry has passed.
C3_ExpiredJoinRejected ==
    [][\A s \in SocketIds, sid \in SessionIds :
          (sessions[sid].exists /\ Expired(sessions[sid]))
          => (sid \in sockets'[s].rooms => sid \in sockets[s].rooms)]_vars

----------------------------------------------------------------------------
(* Properties of the gateway                                               *)

LastLog == gw.log[Len(gw.log)]

\* C5: one call sends at most 3 requests; the first call made is a request;
\* every later request follows a delay that follows a 429 reply; a reply
\* that is not a 429, or a rejected fetch, is the last thing the call does.
C5_BoundedRetry ==
    /\ Fetches(gw) <= 3
    /\ \A i \in 1..Len(gw.log) :
          /\ i = 1 => gw.log[i].op = "fetch"
          /\ (gw.log[i].op = "fetch" /\ i > 1)
             => (i > 2 /\ gw.log[i - 1] = LogDelay
                 /\ gw.log[i - 2] = LogFetch(RateLimitStatus))
          /\ gw.log[i].op = "delay"
             => (i > 1 /\ gw.log[i - 1] = LogFetch(RateLimitStatus))
          /\ (gw.log[i].op = "fetch" /\ gw.log[i].status # RateLimitStatus)
             => i = Len(gw.log)

\* C5 witness: a call that was rate limited three times has finished after
\* three requests and two delays
C5_Witness ==
    /\ gw.pc = "done"
    /\ Fetches(gw) = 3
    /\ Delays(gw) = 2
    /\ LastLog = LogFetch(RateLimitStatus)

\* the call gave up on a reply that was not a success
GaveUpOnReply ==
    /\ gw.pc = "done"
    /\ Len(gw.log) > 0
    /\ LastLog.op = "fetch"
    /\ LastLog.status # 0
    /\ ~Ok(gw.response)

\* C6 as stated: when the gateway gives up on a reply that is not a success
\* (a failure that is not a rate limit, or a rate limit on the last attempt)
\* the result has no output and its error contains the reply's status and
\* the reply's body.
C6_GiveUpCarriesStatusAndBody ==
    GaveUpOnReply =>
        /\ gw.result.output = Undefined
        /\ Contains(gw.result.error, StatusText(gw.response.status))
        /\ \A i \in 1..Len(gw.response.body) :
              Contains(gw.result.error, gw.response.body[i])

GatewayMapped ==
    /\ gw.pc = "done"
    /\ Len(gw.log) > 0
    /\ LastLog = LogFetch(200)

\* C9 as stated: for every (exit code, stdout, stderr) the gateway's result
\* has the same output and error as the sandbox's result for that triple.
C9_SameMappingAsSandbox ==
    GatewayMapped =>
        LET run == gw.response.run
            sandbox == SpawnCloseResult(FALSE, run.code, run.stdout, run.stderr, 0)
        IN  /\ gw.result.output = sandbox.output
            /\ gw.result.error = sandbox.error

\* C9 amended: for every (exit code, stdout, stderr) the gateway's result
\* has the same error as the sandbox's; the outputs are the same for exit
\* code 0; for any other exit code the gateway's output is stdout (absent
\* when stdout is empty) while the sandbox's result has no output.
C9_SameErrorOutputOnSuccess ==
    GatewayMapped =>
        LET run == gw.response.run
            sandbox == SpawnCloseResult(FALSE, run.code, run.stdout, run.stderr, 0)
        IN  /\ gw.result.error = sandbox.error
            /\ run.code = 0 => gw.result.output = sandbox.output
            /\ run.code # 0 => /\ gw.result.output = OrElse(run.stdout, Undefined)
                               /\ sandbox.output = Undefined

\* C9 witness: a run that failed after writing to stdout was mapped, and
\* the gateway's result carries that stdout as output
C9_Witness ==
    /\ GatewayMapped
    /\ gw.response.run.code = 1
    /\ gw.response.run.stdout = <<"out">>
    /\ gw.result.output = <<"out">>

----------------------------------------------------------------------------
(* Properties of the sandbox                                               *)

TextOf(field) == IF field = Undefined THEN EmptyStr ELSE field

\* the call resolved from the exit of a program that no timer ended
RanToExit ==
    /\ sb.pc = "resolved"
    /\ sb.proc = "closed"
    /\ ~sb.timedOut
    /\ sb.exitCode \in ProgramExitCodes

\* the error text when stdout and stderr are both empty
FallbackMsg == IF sb.variant = "spawn" THEN ExecutionFailedMsg ELSE CommandFailedMsg

\* C8 as stated: exit code 0 gives output = stdout and error = stderr only
\* when stderr is not empty; any other exit code gives no output and
\* error = stderr, or stdout when stderr is empty.
C8_OutcomeMapping ==
    RanToExit =>
        IF sb.exitCode = 0
        THEN /\ TextOf(sb.result.output) = sb.stdout
             /\ sb.result.error = (IF sb.stderr # EmptyStr THEN sb.stderr ELSE Undefined)
        ELSE /\ sb.result.output = Undefined
             /\ sb.result.error = (IF sb.stderr # EmptyStr THEN sb.stderr ELSE sb.stdout)

\* C8 amended: as stated, except that a non-zero exit with stdout and
\* stderr both empty gives a fixed failure message as the error.
C8_OutcomeMappingWithFallback ==
    RanToExit =>
        IF sb.exitCode = 0
        THEN /\ TextOf(sb.result.output) = sb.stdout
             /\ sb.result.error = (IF sb.stderr # EmptyStr THEN sb.stderr ELSE Undefined)
        ELSE /\ sb.result.output = Undefined
             /\ sb.result.error =
                  (IF sb.stderr # EmptyStr THEN sb.stderr
                   ELSE IF sb.stdout # EmptyStr THEN sb.stdout
                   ELSE FallbackMsg)

\* C8 witness: a program wrote to stdout only and exited non-zero, and the
\* error of the result is that stdout
C8_Witness ==
    /\ RanToExit
    /\ sb.exitCode = 1
    /\ sb.stderr = EmptyStr
    /\ sb.stdout # EmptyStr
    /\ sb.result.error = sb.stdout

\* C10 as stated: when a timer ended the program (the in-sandbox timeout or
\* the outer kill timer), the result is the fixed timeout message and no
\* output.
C10_TimeoutReported ==
    (sb.pc = "resolved" /\ sb.proc = "closed" /\ sb.timedOut)
    => sb.result = Result(Undefined, TimeoutMsg, sb.result.executionTime)

\* the language of the call in flight has no entry in LANGUAGE_CONFIGS
UnsupportedCall == sb.pc # "idle" /\ ToLowerCase(sb.language) \notin LANGUAGE_CONFIGS

\* once the promise is resolved, a later resolve does not change its value
ResolvedOnce ==
    (sb.pc = "resolved" /\ sb'.pc = "resolved") => sb'.result = sb.result

C12_WorkspaceDiscarded ==
    (sb.pc = "resolved" /\ sb.proc \in {"closed", "none"})
    => (~sb.dir /\ ~sb.file)

----------------------------------------------------------------------------
(* Properties of the sandbox workspaces                                    *)

InFlight(k) == pool.calls[k].pc # "idle"

\* two calls in flight have different workspace directories, different
\* source paths and different containers
Disjoint(k1, k2) ==
    LET c1 == pool.calls[k1]
        c2 == pool.calls[k2]
    IN  /\ (c1.tempDir # EmptyStr /\ c2.tempDir # EmptyStr) => c1.tempDir # c2.tempDir
        /\ (c1.filepath # EmptyStr /\ c2.filepath # EmptyStr) => c1.filepath # c2.filepath
        /\ (c1.container # "none" /\ c2.container # "none") => c1.container # c2.container

\* a step that hands a workspace or a container to a call hands out one
\* that no call was given before
Provisions(k) ==
    LET before == pool.calls[k]
        after == pool'.calls[k]
    IN  /\ (before.filepath # after.filepath /\ after.filepath # EmptyStr)
           => after.filepath \notin pool.workspaces
        /\ (before.container # after.container /\ after.container # "none")
           => after.container \notin pool.created

\* C13: every call provisions its own workspace and container: two calls in
\* flight never share a workspace directory, a source path or a container,
\* and no call is given a source path or a container that an earlier call
\* had, also when both files are named Main.java.
C13_NoSandboxReuse ==
    /\ [](\A k1, k2 \in CallIds : (k1 # k2 /\ InFlight(k1) /\ InFlight(k2))
                                   => Disjoint(k1, k2))
    /\ [][\A k \in CallIds : Provisions(k)]_vars

\* C13 witness: two Java runs of the exec based revision are in flight
\* together, each with a Main.java of its own
C13_Witness ==
    \E k1, k2 \in CallIds :
        /\ k1 # k2
        /\ pool.calls[k1].pc = "running" /\ pool.calls[k2].pc = "running"
        /\ pool.calls[k1].variant = "exec" /\ pool.calls[k2].variant = "exec"
        /\ pool.calls[k1].language = Java /\ pool.calls[k2].language = Java
        /\ pool.calls[k1].filepath # pool.calls[k2].filepath

----------------------------------------------------------------------------
(* Properties of the execution history                                     *)

\* the step in which the route, back from executeCode, writes the history
\* and answers
Answers == req.pc = "saving" /\ req'.pc = "responded"

\* C14 as stated: the step that answers a request that was executed has
\* appended exactly one history row, which carries the session id, the
\* code, the language and the elapsed time of the run.
C14_HistoryRecordWritten ==
    [][Answers =>
         /\ Len(history') = Len(history) + 1
         /\ LET row == history'[Len(history')]
            IN  /\ row.sessionId = req.sessionId
                /\ row.code = req.code
                /\ row.language = req.language.tag
                /\ "executionTime" \in DOMAIN row
                /\ row.executionTime = req.result.executionTime]_vars

\* C15 as stated: the step that answers a request that was executed
\* answers 200 with the result of the run, whether or not the history row
\* could be written.
C15_HistoryBestEffort ==
    [][Answers =>
         /\ req'.response.status = 200
         /\ req'.response.result = req.result]_vars

\* C16 as stated: the execute route answers 200, 400, 404 or 410 and
\* nothing else, and a request for which executeCode was called is
\* answered 200.
C16_OnlyClientErrorStatuses ==
    (req.kind = "execute" /\ req.pc = "responded")
    => /\ req.response.status \in {200} \cup RejectionStatuses
       /\ req.executed => req.response.status = 200

----------------------------------------------------------------------------
(* Properties of the presence hub                                          *)

\* this step emits an event, which is Emitted
Emits == Len(emitted') = Len(emitted) + 1

Emitted == emitted'[Len(emitted')]

PresenceEvents == {"user-joined", "user-left", "remote-cursor", "language-changed"}

\* the connections that have joined session sid and are still connected
Participants(sid) ==
    {t \in SocketIds : sockets[t].state = "connected" /\ sid \in sockets[t].joined}

\* C17: user-joined is delivered to exactly the connections that have
\* joined the session and are connected, the joining one included; and no
\* presence event of a session was ever delivered to a connection that has
\* not joined that session.
C17_BroadcastScopedToSession ==
    /\ [](\A i \in 1..Len(emitted) :
            emitted[i].event \in PresenceEvents
            => \A t \in emitted[i].to : emitted[i].sessionId \in sockets[t].joined)
    /\ [][(Emits /\ Emitted.event = "user-joined")
          => Emitted.to = Participants(Emitted.sessionId)]_vars

\* C17 witness: user-joined of s1 went to the joining socket b while socket
\* a, connected and joined to s2 only, did not get it
C17_Witness ==
    /\ sockets["a"].state = "connected"
    /\ sockets["a"].joined = {"s2"}
    /\ \E i \in 1..Len(emitted) :
          /\ emitted[i].event = "user-joined"
          /\ emitted[i].sessionId = "s1"
          /\ emitted[i].userId = "b"
          /\ emitted[i].to = {"b"}

\* C18 as stated: the list of a user-joined event that is delivered to
\* some connection holds the joining connection, every connected connection
\* whose record is in the session's hash, and no connection that has
\* disconnected.
C18_UserJoinedListsParticipants ==
    [][(Emits /\ Emitted.event = "user-joined" /\ Emitted.to # {})
       => LET sid == Emitted.sessionId
          IN  /\ Emitted.userId \in Emitted.payload
              /\ \A t \in Participants(sid) :
                    users'[sid][t].present => t \in Emitted.payload
              /\ \A t \in Emitted.payload : sockets[t].state # "closed"]_vars

\* C19 as stated: when an event that originates from a connection that has
\* asked to join the session (remote-cursor, language-changed,
\* username-changed) is delivered to another connection whose record is in
\* the session's hash, the user-joined of the originating connection was
\* emitted to the session before.
C19_JoinObservedFirst ==
    [][(/\ Emits
        /\ Emitted.event \in {"remote-cursor", "language-changed", "username-changed"}
        /\ Emitted.sessionId \in sockets[Emitted.userId].joined
        /\ \E t \in Emitted.to \ {Emitted.userId} :
              users[Emitted.sessionId][t].present)
       => \E j \in 1..Len(emitted) :
             /\ emitted[j].event = "user-joined"
             /\ emitted[j].userId = Emitted.userId
             /\ emitted[j].sessionId = Emitted.sessionId]_vars

SnapshotEvents == {"user-joined", "username-changed"}

\* C20 as stated: of two events of one session that carry a user list, the
\* one emitted later was not read from the hash before the one emitted
\* earlier.
C20_SnapshotsInOrder ==
    \A i, j \in 1..Len(emitted) :
        (/\ i < j
         /\ emitted[i].event \in SnapshotEvents
         /\ emitted[j].event \in SnapshotEvents
         /\ emitted[i].sessionId = emitted[j].sessionId)
        => emitted[i].snap <= emitted[j].snap

\* no handler of the hub is running and no Redis command is outstanding
Settled ==
    /\ redis.queue = <<>>
    /\ Quiet
    /\ \A s \in SocketIds : joins[s].pc = "idle" /\ ops[s].pc = "idle"

\* C21 as stated: once the hub has settled after a connection closed, no
\* session's hash holds a record of that connection, and for every session
\* it had joined a user-left event that originates from it was emitted.
C21_DisconnectRemovesParticipant ==
    \A s \in SocketIds :
        (Settled /\ sockets[s].state = "closed")
        => /\ \A sid \in SessionIds : ~users[sid][s].present
           /\ \A sid \in sockets[s].joined :
                 \E i \in 1..Len(emitted) :
                    /\ emitted[i].event = "user-left"
                    /\ emitted[i].sessionId = sid
                    /\ emitted[i].userId = s

\* language-changed is emitted by the handler of socket Emitted.userId after
\* its update of the session row was applied, and reaches every participant
LanguageWrittenFirst ==
    (Emits /\ Emitted.event = "language-changed")
    => /\ ops[Emitted.userId].pc = "updated"
       /\ sessions[Emitted.sessionId].language = ops[Emitted.userId].value
       /\ Emitted.payload = {ops[Emitted.userId].value}
       /\ Emitted.to = Participants(Emitted.sessionId)

\* a language-change handler whose update failed ends without an event
FailedWriteIsSilent ==
    \A s \in SocketIds :
        (ops[s].pc = "failed" /\ ops'[s].pc = "idle") => emitted' = emitted

\* session-state shows the language the session row holds when it is sent
StateShowsPersisted ==
    (Emits /\ Emitted.event = "session-state")
    => Emitted.payload = {sessions[Emitted.sessionId].language}

C23_CursorSkipsSenderLanguageDoesNot ==
    /\ [][(Emits /\ Emitted.event = "remote-cursor")
          => /\ Emitted.to = Participants(Emitted.sessionId) \ {Emitted.userId}
             /\ Emitted.userId \notin Emitted.to]_vars
    /\ [][(Emits /\ Emitted.event = "language-changed")
          => /\ Emitted.to = Participants(Emitted.sessionId)
             /\ (Emitted.userId \in Participants(Emitted.sessionId)
                 => Emitted.userId \in Emitted.to)]_vars

\* C23 witness: with a and b in s1, remote-cursor of a went to b alone and
\* language-changed of b went to both
C23_Witness ==
    /\ \E i \in 1..Len(emitted) :
          /\ emitted[i].event = "remote-cursor"
          /\ emitted[i].userId = "a"
          /\ emitted[i].to = {"b"}
    /\ \E i \in 1..Len(emitted) :
          /\ emitted[i].event = "language-changed"
          /\ emitted[i].userId = "b"
          /\ emitted[i].to = {"a", "b"}

\* the session-state events sent for the join of session sid by socket s
StatesSent(s, sid) ==
    {i \in 1..Len(emitted) :
        /\ emitted[i].event = "session-state"
        /\ emitted[i].sessionId = sid
        /\ emitted[i].userId = s}

\* the step ends the join handler of socket s
JoinEnds(s) == joins[s].pc # "idle" /\ joins'[s].pc = "idle"

\* session-state is delivered to no connection but the joining one
StateToJoinerOnly ==
    (Emits /\ Emitted.event = "session-state") => Emitted.to \subseteq {Emitted.userId}

\* C24 as stated: session-state goes to the joining connection only, and a
\* join handler that ends has delivered it to that connection, once.
C24_StateExactlyOnce ==
    /\ [][StateToJoinerOnly]_vars
    /\ [](\A s \in SocketIds, sid \in SessionIds : Cardinality(StatesSent(s, sid)) <= 1)
    /\ [][\A s \in SocketIds :
            JoinEnds(s) => /\ Emits
                           /\ Emitted.event = "session-state"
                           /\ Emitted.to = {s}]_vars

\* C24 amended: session-state goes to the joining connection only and at
\* most once for a join; it is sent only for a session that exists, and a
\* join of an existing session by a connection that is still connected ends
\* with session-state, or with error when a step of the join failed.
C24_StateAtMostOnce ==
    /\ [][StateToJoinerOnly]_vars
    /\ [](\A s \in SocketIds, sid \in SessionIds : Cardinality(StatesSent(s, sid)) <= 1)
    /\ [][(Emits /\ Emitted.event = "session-state")
          => sessions[Emitted.sessionId].exists]_vars
    /\ [][\A s \in SocketIds :
            (/\ JoinEnds(s)
             /\ sessions[joins[s].sessionId].exists
             /\ sockets[s].state = "connected")
            => /\ Emits
               /\ Emitted.userId = s
               /\ Emitted.to = {s}
               /\ Emitted.event \in {"session-state", "error"}
               /\ Emitted.event = "error" \/ joins[s].pc = "findSession"]_vars

\* C24 witness: b had joined s1 when a's join of s1 ended with a
\* session-state that went to a alone
C24_Witness ==
    \E i, j \in 1..Len(emitted) :
        /\ i < j
        /\ emitted[i].event = "user-joined"
        /\ emitted[i].sessionId = "s1"
        /\ emitted[i].userId = "b"
        /\ emitted[j].event = "session-state"
        /\ emitted[j].sessionId = "s1"
        /\ emitted[j].to = {"a"}
        /\ sockets["b"].state = "connected"

\* the sessions socket s is in: those whose room it is in and those whose
\* hash holds its record
SessionsOf(s) ==
    {sid \in SessionIds : sid \in sockets[s].rooms \/ users[sid][s].present}

\* C25 as stated: a connection is in at most one session.
C25_AtMostOneSession ==
    \A s \in SocketIds : Cardinality(SessionsOf(s)) <= 1

\* C26 as stated: while no join handler of a connection is running, the
\* connection is either Joined to a session (in its room, where broadcasts
\* reach it, and registered in its hash) or Disconnected from it (neither).
C26_JoinedOrDisconnected ==
    \A s \in SocketIds :
        joins[s].pc = "idle"
        => \A sid \in SessionIds :
              sid \in sockets[s].rooms <=> users[sid][s].present

\* C27 as stated: with the hub on two instances, an event of a session
\* reaches the participants of the session on every instance.
C27_DeliveredAcrossInstances ==
    [][(Emits /\ Emitted.event \in PresenceEvents)
       => Participants(Emitted.sessionId) \ {Emitted.userId} \subseteq Emitted.to]_vars

\* the calls whose container is running
Running == {k \in CallIds : pool.calls[k].pc = "running"}

\* C28 as stated: there is a cap on the sandboxes that run at once; with
\* one call more than the cap allows, not all calls have a running container
\* at the same time.
C28_SandboxesCapped ==
    Cardinality(Running) < Cardinality(CallIds)

\* C29 as stated: a result of the sandbox whose output and error are both
\* empty carries a status that tells why; a run that exits 0 having written
\* nothing is marked as a success.
C29_BlankResultHasStatus ==
    (/\ sb.pc = "resolved"
     /\ ~Truthy(sb.result.output)
     /\ ~Truthy(sb.result.error))
    => "status" \in DOMAIN sb.result

\* the call resolved because the sandbox could not be set up: the workspace
\* could not be written, the docker binary could not be started, or the
\* daemon could not run the container
ProvisioningFailed ==
    /\ sb.pc = "resolved"
    /\ \/ sb.proc = "none"
       \/ sb.exitCode = DockerFailedExitCode
       \/ sb.exitCode = NullExitCode /\ ~sb.killed /\ ~sb.timedOut

\* the results of calls in which a program ran and exited non-zero, whatever
\* it wrote
ProgramFailureResults ==
    {IF sb.variant = "spawn"
     THEN SpawnCloseResult(FALSE, c, out, err, sb.result.executionTime)
     ELSE ExecResult(FALSE, c, out, err, sb.result.executionTime) :
        c \in ProgramExitCodes \ {0},
        out \in {EmptyStr, <<"out">>},
        err \in {EmptyStr} \cup {<<chunk>> : chunk \in StderrChunks}}

\* C30 as stated: the result of a call whose sandbox could not be set up is
\* not a result that a program that ran and exited non-zero can produce.
C30_ProvisioningFailedDistinct ==
    ProvisioningFailed => sb.result \notin ProgramFailureResults

----------------------------------------------------------------------------
(* Properties of the docker command and of validateCode                    *)

\* a call of executeCode has built its docker command
Built == cmd.pc \in {"built", "ran"}

Has(args, options) == \E i \in 1..Len(args) : args[i] \in options

\* C31 as stated: every sandbox is started with a memory ceiling, a CPU
\* ceiling, a read-only root filesystem, a small writable scratch area and
\* no network; only TypeScript may have the network, and then it has
\* everything else.
C31_SandboxRestricted ==
    Built =>
        /\ Has(cmd.args, {"--memory=256m", "--memory=128m"})
        /\ Has(cmd.args, {"--cpus=1.0", "--cpus=0.5"})
        /\ Has(cmd.args, {"--read-only"})
        /\ Has(cmd.args, {"/tmp:rw,exec,nosuid,size=100m", "/tmp:rw,noexec,nosuid,size=10m"})
        /\ (Has(cmd.args, {"--network=none"}) \/ ToLowerCase(cmd.language) = Typescript)

\* characters the shell gives a meaning to, inside or outside quotes
ShellMeta ==
    {"'", "\"", "$", ";", "&", "|", "<", ">", "(", ")", "{", "}",
     "[", "]", "*", "?", "!", "#", "~", " "}

Base64Chars == {Base64Alphabet[i] : i \in 1..Len(Base64Alphabet)} \cup {Base64Pad}

\* C32: in the command line handed to the shell, what depends on the source
\* text stands between two single quotes and is made of characters of the
\* base64 alphabet, none of which is a shell metacharacter; the rest of the
\* command line is that of the empty source; and once the command has run,
\* the source file in the sandbox holds the bytes of the source text.
C32_SourceNeverUnescaped ==
    /\ Base64Chars \cap ShellMeta = {}
    /\ Built =>
          /\ \A i \in 1..Len(Payload(cmd.shell)) : Payload(cmd.shell)[i] \in Base64Chars
          /\ Frame(cmd.shell) =
                Frame(ShellCommand(cmd.variant, cmd.language, <<>>,
                                   TempDir(cmd.executionId), cmd.filename))
    /\ cmd.pc = "ran" => cmd.file = Utf8Bytes(cmd.text)

\* C32 witness: a source text made of a quote and a character outside
\* ASCII went through the command line of the spawn based revision and
\* was written to the source file as it is
C32_Witness ==
    /\ cmd.pc = "ran"
    /\ cmd.variant = "spawn"
    /\ cmd.text = <<"'", "U+00E9">>
    /\ cmd.file = <<39, 195, 169>>
    /\ Len(Payload(cmd.shell)) = 4

\* C39 as stated: a tag that executeCode does not support is one that
\* validateCode rejects, whatever the code; and what executeCode builds for
\* a tag (the file name, the options, the command line) is what it builds
\* for the lower-case form of the tag.
C39_TagsCaseInsensitive ==
    /\ cmd.pc = "threw"
       => \A code \in ValidateInputs, dangerous \in BOOLEAN :
             ~validateCodeDocker(code, dangerous, cmd.language).valid
    /\ Built =>
          LET lower == ToLowerCase(cmd.language)
              tempDir == TempDir(cmd.executionId)
              filename == Filename(cmd.variant, lower, cmd.executionId)
          IN  /\ cmd.filename = filename
              /\ cmd.args = DockerArgs(cmd.variant, lower, tempDir)
              /\ cmd.shell = ShellCommand(cmd.variant, lower, cmd.text, tempDir, filename)

\* the language table validateCode consults in a revision
SupportedBy(variant) ==
    IF variant \in {"gateway", "undeclared"} THEN PISTON_LANGUAGES
    ELSE LANGUAGE_CONFIGS

\* the verdict on a code by the three checks in their order: blank, longer
\* than the ceiling, language not supported
ThreeChecks(variant, code, language) ==
    IF code.trimLen = 0
    THEN Invalid(EmptyCodeMsg)
    ELSE IF code.len > MaxCodeLength
    THEN Invalid(TooLongMsg)
    ELSE IF ToLowerCase(language) \notin SupportedBy(variant)
    THEN Invalid(UnsupportedMsg(language))
    ELSE Valid

\* C34 as stated: validateCode accepts a code exactly when it is not blank,
\* not longer than the ceiling and of a supported language, and reports
\* the first of these checks that fails.
C34_ValidateThreeChecks ==
    cmd.pc \in {"validated", "validateThrew"}
    => /\ cmd.pc = "validated"
       /\ cmd.validation = ThreeChecks(cmd.variant, cmd.input.code, cmd.language)

----------------------------------------------------------------------------
(* Properties of the session record and of the presence store              *)

\* C33: a step that changes the language of an existing session record is
\* the update of a language-change handler for that session, and sets the
\* language the handler was sent; no step of the execute route, of a join,
\* a cursor-change, a username-change or a disconnect changes it.
C33_LanguageOnlyByLanguageChange ==
    [][\A sid \in SessionIds :
          (sessions[sid].exists /\ sessions'[sid] # sessions[sid])
          => \E s \in SocketIds :
                /\ ops[s].pc = "update"
                /\ ops'[s].pc = "updated"
                /\ ops[s].sessionId = sid
                /\ sessions'[sid] = [sessions[sid] EXCEPT !.language = ops[s].value]]_vars

\* C33 witness: the language of s1 is the one socket a set, after a joined,
\* moved its cursor, renamed itself and disconnected and after code tagged
\* JAVA was executed and recorded for s1
C33_Witness ==
    /\ sessions["s1"].language = Python
    /\ sockets["a"].state = "closed"
    /\ Len(history) > 0
    /\ history[1].language = JavaUpper
    /\ \A e \in {"user-joined", "remote-cursor", "username-changed", "language-changed"} :
          \E i \in 1..Len(emitted) : emitted[i].event = e

\* C35 as stated: once the hub has settled with every connection closed,
\* no session's hash holds a participant record.
C35_PresenceReleased ==
    (Settled /\ \A s \in SocketIds : sockets[s].state = "closed")
    => \A sid \in SessionIds, s \in SocketIds : ~users[sid][s].present

\* C36 as stated: a step that removes a record from a session's hash does
\* not remove the record of a connection that is connected and in the
\* session's room, on whichever instance.
C36_CleanupSparesConnected ==
    [][\A sid \in SessionIds, t \in SocketIds :
          (users[sid][t].present /\ ~users'[sid][t].present)
          => ~(sockets[t].state = "connected" /\ sid \in sockets[t].rooms)]_vars

\* C37 as stated: when the join handler of a connection that has closed
\* ends, the session's hash holds no record of the connection; and a
\* user-joined that originates from a closed connection does not list it.
C37_NoTraceOfAbandonedJoin ==
    /\ [][\A s \in SocketIds :
            (JoinEnds(s) /\ sockets[s].state = "closed")
            => ~users'[joins[s].sessionId][s].present]_vars
    /\ [][(/\ Emits
           /\ Emitted.event = "user-joined"
           /\ sockets[Emitted.userId].state = "closed")
          => Emitted.userId \notin Emitted.payload]_vars

\* C38 as stated: the list of a username-changed or user-left event holds
\* only connections that are connected and in the session's room; and a
\* username-change handler that finds no record of its connection ends
\* without a write and without an event.
C38_ListsOnlyConnected ==
    /\ [][(Emits /\ Emitted.event \in {"username-changed", "user-left"})
          => \A t \in Emitted.payload :
                /\ sockets[t].state = "connected"
                /\ Emitted.sessionId \in sockets[t].rooms]_vars
    /\ [][\A s \in SocketIds :
            (/\ ops[s].pc = "hget"
             /\ ops'[s].pc # "hget"
             /\ ~users[ops[s].sessionId][s].present)
            => /\ users' = users
               /\ emitted' = emitted
               /\ ops'[s].pc = "idle"]_vars

====
